---- MODULE Spec2Model ----
(***************************************************************************)
(* A model of NetworkTester (src/src/topology.ts, second half): the speed  *)
(* test, the latency test and the WiFi health analysis, together with the  *)
(* external commands they run.  Every `await execAsync(...)` is one step   *)
(* whose outcome (rejection, or the text the command printed) is chosen by *)
(* the environment.  calculateOverallHealth and the report of              *)
(* calculateQualityOfService, which run no command, are also evaluated on  *)
(* their own (HealthSpec, QoSSpec, QoSPairSpec) on values around the       *)
(* limits of their bands, and the trial loop of the download test on two   *)
(* trials (TrialSpec).  UploadsSpec runs several upload tests together.    *)
(* HistorySpec is SignalAnalyzer.analyzeSignal (src/unnamed/part_002),     *)
(* ScanSpec is WiFiScanner.scanDevices (src/src/scanner.ts) and            *)
(* DashboardSpec the refresh loop of the Dashboard (src/unnamed/part_000). *)
(*                                                                         *)
(* Units.  JavaScript numbers are modelled by integers in fixed units:     *)
(*   round-trip times (the `times` list)      microseconds (ms / 1000)     *)
(*   min, max, avg, jitter of a LatencyTest   hundredths of a millisecond  *)
(*   loss                                     hundredths of a percent      *)
(*   speed                                    hundredths of a Mbps         *)
(*   elapsed                                  milliseconds                 *)
(*   bytes                                    bytes                        *)
(* so that Math.round(x * 100) / 100 is a rounding to the integer unit.    *)
(***************************************************************************)
EXTENDS Integers, Sequences, FiniteSets, TLC

VARIABLES
    pc,        \* the position of the running call (a label of the code)
    stack,     \* return labels of the callers, innermost first
    op,        \* the public method running: "none" when the tester is idle
    last,      \* how the last public call ended: [op, kind, val]
    now,       \* Date.now(), in milliseconds
    tmpFiles,  \* the speedtest-upload-*.bin files present in tmpdir()
    anyOk,     \* history: an external command of the running call succeeded
    lt,        \* frame of testLatency
    fb,        \* frame of findBestServer
    dl,        \* frame of testDownloadSpeedImproved
    ul,        \* frame of testUploadSpeedImproved
    qs,        \* frame of runQuickSpeedTest
    rs,        \* frame of runSpeedTest
    wh,        \* frame of analyzeWiFiHealth
    call,      \* a helper function evaluated on its own: [fn, st, args, res]
    ups,       \* frames of testUploadSpeedImproved calls that run together
    signalHistory,  \* SignalAnalyzer.signalHistory: the readings of each BSSID
    recorded,  \* history: the number of readings recorded so far, by BSSID
    scan,      \* frame of WiFiScanner.scanDevices and of its sweep
    dash       \* the Dashboard and its updateData calls

vars == <<pc, stack, op, last, now, tmpFiles, anyOk, lt, fb, dl, ul, qs, rs, wh,
          call, ups, signalHistory, recorded, scan, dash>>

\* the variables of the NetworkTester object and of its running call
tester == <<pc, stack, op, last, now, tmpFiles, anyOk, lt, fb, dl, ul, qs, rs,
            wh>>

\* the variables a call of the tester leaves alone
aside == <<call, ups, signalHistory, recorded, scan, dash>>

-----------------------------------------------------------------------------
(* Bounds of the model *)

\* largest sample count the ping command is called with from the CLI
MaxCount == 3
\* most duplicate echo replies (ping's "DUP!" lines) in one ping output
MaxDup == 1
\* longest period of the round-trip times a ping output repeats
MaxPattern == 2
\* last value of the millisecond clock
MaxNow == 1

\* number of testUploadSpeedImproved calls that run together
Invocations == 2

\* largest number of readings recorded for one BSSID
MaxReadings == 102

\* number of hosts of the subnet the ping sweep visits (the code visits 20)
MaxHost == 3

\* number of updateData calls of a dashboard
MaxScans == 4

-----------------------------------------------------------------------------
(* Numbers *)

\* Math.round(a / b) for b > 0: the nearest integer, halves towards +infinity
RoundDiv(a, b) == (2 * a + b) \div (2 * b)

RECURSIVE SumSeq(_)
SumSeq(s) == IF s = <<>> THEN 0 ELSE Head(s) + SumSeq(Tail(s))

RECURSIVE SumSq(_, _)
\* the sum of (s[i] - base)^2
SumSq(s, base) ==
    IF s = <<>> THEN 0
    ELSE (Head(s) - base) * (Head(s) - base) + SumSq(Tail(s), base)

MinOf(s) == CHOOSE x \in {s[i] : i \in DOMAIN s} : \A i \in DOMAIN s : x <= s[i]
MaxOf(s) == CHOOSE x \in {s[i] : i \in DOMAIN s} : \A i \in DOMAIN s : x >= s[i]

\* (the jitter as the sample standard deviation: the squares divided by n - 1)
JitterOfSample(s) ==
    LET n == Len(s)
        lo == MinOf(s)
        sd == SumSeq(s) - n * lo
        D  == n * SumSq(s, lo) - sd * sd
    IN  IF n = 1 THEN 0
        ELSE CHOOSE J \in 0 .. ((MaxOf(s) - lo) \div 10 + 1) :
                /\ (J = 0 \/ (2 * J - 1) * (2 * J - 1) * 25 * n * (n - 1) <= D)
                /\ D < (2 * J + 1) * (2 * J + 1) * 25 * n * (n - 1)

\* Math.round(Math.sqrt(variance) * 100) of the times s (microseconds), in
\* hundredths of a millisecond.  With d[i] = s[i] - min and n = Len(s),
\* variance = (n * sum d^2 - (sum d)^2) / n^2 microseconds^2, and J is the
\* rounded value of sqrt(variance) / 10 iff
\*   (2J - 1)^2 * 25 * n^2 <= n * sum d^2 - (sum d)^2 < (2J + 1)^2 * 25 * n^2.
JitterOf(s) ==
    LET n == Len(s)
        lo == MinOf(s)
        sd == SumSeq(s) - n * lo
        D  == n * SumSq(s, lo) - sd * sd
    IN  CHOOSE J \in 0 .. ((MaxOf(s) - lo) \div 10 + 1) :
            /\ (J = 0 \/ (2 * J - 1) * (2 * J - 1) * 25 * n * n <= D)
            /\ D < (2 * J + 1) * (2 * J + 1) * 25 * n * n

-----------------------------------------------------------------------------
(* testLatency *)

\* round-trip times a reply line can carry, in microseconds
RttValues == {9500, 10000, 10449}

\* the sample counts the CLI's ping command passes (parseInt of --count)
CountValues == (-1) .. MaxCount

Patterns == UNION {[1 .. n -> RttValues] : n \in 1 .. MaxPattern}

\* the reply times of a ping output of five lines: 10, 12, 11, 13 and 9 ms
FiveReplies == <<10000, 12000, 11000, 13000, 9000>>

\* What `ping -c count host` can give: the command is rejected (non-zero exit,
\* as for a count below 1 or an unreachable host), or it prints r reply lines
\* "time=..." with r up to count plus the duplicates, or the five lines
\* above.  The command ends by itself once count requests are sent, also
\* when no reply comes.
PingOutcomes(count) ==
    {[ok |-> FALSE, times |-> <<>>]} \cup
    (IF count < 1 THEN {}
     ELSE {[ok |-> TRUE,
            times |-> [i \in 1 .. r |-> p[((i - 1) % Len(p)) + 1]]] :
              r \in 0 .. (count + MaxDup), p \in Patterns}) \cup
    (IF count < Len(FiveReplies) THEN {}
     ELSE {[ok |-> TRUE, times |-> FiveReplies]})

\* the percentage of a full loss
FullLoss == 100

\* (a no-reply value that reports no loss)
NoReplyNoLoss == [min |-> 0, max |-> 0, avg |-> 0, loss |-> 0,
                  jitter |-> 0, times |-> <<>>]

\* the value returned when no reply time was parsed, and by the catch block
NoReply == [min |-> 0, max |-> 0, avg |-> 0, loss |-> FullLoss * 100,
            jitter |-> 0, times |-> <<>>]

\* (the loss cut to two decimals instead of rounded)
LossTruncated(count, n) == ((count - n) * 100 * 100) \div count

\* loss: Math.round(((count - n) / count) * 100 * 100) / 100
LossOf(count, n) == RoundDiv((count - n) * 100 * 100, count)

\* the LatencyTest computed from the parsed times (none, or at least one)
LatencyStats(count, times) ==
    IF Len(times) = 0 THEN NoReply
    ELSE [min    |-> RoundDiv(MinOf(times), 10),
          max    |-> RoundDiv(MaxOf(times), 10),
          avg    |-> RoundDiv(SumSeq(times), 10 * Len(times)),
          loss   |-> LossOf(count, Len(times)),
          jitter |-> JitterOf(times),
          times  |-> times]

\* the value testLatency returns for an outcome of the ping command
LatencyResult(count, out) ==
    IF out.ok THEN LatencyStats(count, out.times) ELSE NoReply

-----------------------------------------------------------------------------
(* The configured servers *)

\* the value of a property an object literal does not have
Undefined == "undefined"

\* the download property of a server that has none
NoDownload == [host |-> Undefined, file |-> Undefined]

\* speedTestServers; a download target is a host and the file asked of it
speedTestServers ==
    << [name |-> "Fast.com", download |-> NoDownload, location |-> Undefined],
       [name |-> "Hetzner", location |-> "Germany",
        download |-> [host |-> "speed.hetzner.de", file |-> "100MB"]],
       [name |-> "Tele2", location |-> "Sweden",
        download |-> [host |-> "speedtest.tele2.net", file |-> "100MB"]],
       [name |-> "OVH", location |-> "France",
        download |-> [host |-> "proof.ovh.net", file |-> "100Mb"]],
       [name |-> "IBM Cloud", location |-> "Washington DC",
        download |-> [host |-> "speedtest.wdc01.softlayer.com", file |-> "test100"]],
       [name |-> "Linode Tokyo", location |-> "Tokyo",
        download |-> [host |-> "speedtest.tokyo.linode.com", file |-> "100MB"]] >>

\* speedTestServers.slice(0, 3): how many servers findBestServer probes
ProbedServers == 3

\* server.download.replace('100MB', to)
Replace100MB(download, to) ==
    IF download.file = "100MB" THEN [download EXCEPT !.file = to] ELSE download

TestSizes == {"small", "medium", "large"}

BytesPerMiB == 1048576

\* sizeMap of testDownloadSpeedImproved: the url asked and the expected size
DownloadConfig(testSize, server) ==
    LET d == speedTestServers[server].download
    IN  CASE testSize = "small"  -> [url |-> Replace100MB(d, "10MB"),
                                     size |-> 10 * BytesPerMiB]
          [] testSize = "medium" -> [url |-> d, size |-> 100 * BytesPerMiB]
          [] testSize = "large"  -> [url |-> Replace100MB(d, "1000MB"),
                                     size |-> 1024 * BytesPerMiB]

\* numTests of testDownloadSpeedImproved
NumTests(testSize) == IF testSize = "large" THEN 1 ELSE 2

\* sizeMap of testUploadSpeedImproved: the payload size in bytes
UploadSize(testSize) ==
    CASE testSize = "small"  -> 1 * BytesPerMiB
      [] testSize = "medium" -> 5 * BytesPerMiB
      [] testSize = "large"  -> 10 * BytesPerMiB

\* the number of upload methods in uploadTests
UploadMethods == 3

-----------------------------------------------------------------------------
(* Transfer results *)

\* the result a failed transfer is replaced by
Sentinel == [speed |-> 0, bytes |-> 0, elapsed |-> 0]

\* Math.round(mbps * 100) with mbps = (bytesPerSecond * 8) / (1024 * 1024):
\* bytesPerSecond * 800 / 1048576 = bytesPerSecond * 25 / 32768
SpeedOfRate(bytesPerSecond) == RoundDiv(bytesPerSecond * 25, 32768)

\* the number Infinity (a positive number divided by zero), above every speed
Infinity == 2147483647

\* Math.round(mbps * 100) with mbps = (expectedSize * 8) / (elapsed * 1024 * 1024)
\* and elapsed = elapsedMs / 1000 seconds; nothing checks that elapsed is not 0
SpeedOfFallback(expectedSize, elapsedMs) ==
    IF elapsedMs = 0 THEN Infinity
    ELSE RoundDiv((expectedSize \div BytesPerMiB) * 800000, elapsedMs)

\* What curl's -w line of a download trial can say, or the command is rejected
\* (ok = FALSE: a timeout, a connection failure, a non-zero exit).  curl's
\* speed_download (rate) is size_download / time_total, cut to an integer.
TrialOutcomes ==
    { [ok |-> FALSE, http |-> "000", size |-> 0, rate |-> 0, timeMs |-> 0],
      [ok |-> TRUE, http |-> "200", size |-> 10485760, rate |-> 5269226,
       timeMs |-> 1990],
      [ok |-> TRUE, http |-> "200", size |-> 10197402, rate |-> 5098701,
       timeMs |-> 2000],
      [ok |-> TRUE, http |-> "404", size |-> 162, rate |-> 1620, timeMs |-> 100],
      [ok |-> TRUE, http |-> "200", size |-> 0, rate |-> 0, timeMs |-> 50] }

\* the `if` of a trial: the status is 200 and some bytes arrived
TrialKept(out) == out.ok /\ out.http = "200" /\ out.size > 0

TrialResult(out) ==
    [speed |-> SpeedOfRate(out.rate), bytes |-> out.size, elapsed |-> out.timeMs]

\* (the result of the first kept trial, whatever its speed)
FirstTrial(results) == results[1]

\* results.sort((a, b) => b.speed - a.speed)[0]: the first result of the
\* highest speed (Array.prototype.sort is stable)
BestTrial(results) ==
    results[CHOOSE k \in DOMAIN results :
                \A j \in DOMAIN results :
                    /\ results[j].speed <= results[k].speed
                    /\ (results[j].speed = results[k].speed => k <= j)]

\* The fallback transfer: rejected, or completed with elapsedMs between the two
\* readings of Date.now() (0 when the wall clock was set back meanwhile).
\* curl ends normally whatever the status of the response (there is no -f);
\* http and size are the status and the bytes received, which the command
\* line does not ask curl to print.
FallbackOutcomes ==
    { [ok |-> FALSE, elapsedMs |-> 0, http |-> "000", size |-> 0],
      [ok |-> TRUE, elapsedMs |-> 0, http |-> "200", size |-> 10485760],
      [ok |-> TRUE, elapsedMs |-> 2000, http |-> "200", size |-> 10485760],
      [ok |-> TRUE, elapsedMs |-> 30000, http |-> "200", size |-> 10485760],
      [ok |-> TRUE, elapsedMs |-> 2000, http |-> "404", size |-> 162] }

FallbackResult(expectedSize, out) ==
    [speed |-> SpeedOfFallback(expectedSize, out.elapsedMs),
     bytes |-> expectedSize, elapsed |-> out.elapsedMs]

\* What an upload method's curl can say, or the command is rejected
UploadOutcomes ==
    { [ok |-> FALSE, size |-> 0, rate |-> 0, timeMs |-> 0],
      [ok |-> TRUE, size |-> 0, rate |-> 0, timeMs |-> 120],
      [ok |-> TRUE, size |-> 1048781, rate |-> 1310976, timeMs |-> 800],
      [ok |-> TRUE, size |-> 1048781, rate |-> 655488, timeMs |-> 1600] }

UploadResult(out) ==
    [speed |-> SpeedOfRate(out.rate), bytes |-> out.size, elapsed |-> out.timeMs]

\* (a loop that takes the result of any method that did not raise)
UploadAcceptedAny(out) == out.ok

\* the `if (result.speed > 0)` of the upload loop
UploadAccepted(out) == out.ok /\ UploadResult(out).speed > 0

\* Creating the payload: written; or an exception before the file exists
\* (Buffer.alloc); or an exception of writeFileSync that leaves a partial file
WriteOutcomes == {"written", "failed", "partial"}

\* (a cleanup that leaves the file)
UnlinkSkipped(files, f) == files

\* unlinkSync(tempFile), its error (no such file) ignored
Unlink(files, f) == files \ {f}

-----------------------------------------------------------------------------
(* findBestServer *)

\* Reachability check of a server (curl -I): rejected, or answered after ms.
\* For the server without a download target the url is the text "undefined";
\* whether anything answers to that name is the resolver's choice.
ProbeOutcomes ==
    { [ok |-> FALSE, ms |-> 0], [ok |-> TRUE, ms |-> 40], [ok |-> TRUE, ms |-> 90] }

\* (the first server that answered, whatever its response time)
FirstResponder(results) ==
    IF Len(results) = 0 THEN 1 ELSE results[1].server

\* results.sort((a, b) => a.responseTime - b.responseTime)[0].server, or the
\* fallback speedTestServers[0]; servers are named by their position (from 1)
BestServer(results) ==
    IF Len(results) = 0 THEN 1
    ELSE results[CHOOSE k \in DOMAIN results :
                    \A j \in DOMAIN results :
                        /\ results[k].responseTime <= results[j].responseTime
                        /\ (results[j].responseTime = results[k].responseTime
                                => k <= j)].server

-----------------------------------------------------------------------------
(* Frames: the locals of each method while it runs.  st is "idle" (not       *)
(* called), "run", "returned" (res is the value) or "raised" (an exception  *)
(* left the method); the caller clears the frame when it takes the outcome. *)

\* no current network (null).  A network is [present, signal, channel,
\* hasSecurity, security]: signal and channel 0 also stand for a missing
\* value, which the code treats like 0; hasSecurity tells a security list
\* from a missing one
NoNetwork == [present |-> FALSE, signal |-> 0, channel |-> 0,
              hasSecurity |-> FALSE, security |-> {}]

\* out is the outcome the ping command had
IdleLt == [st |-> "idle", count |-> 0, out |-> [ok |-> FALSE, times |-> <<>>],
           res |-> NoReply]
IdleFb == [st |-> "idle", i |-> 0, results |-> <<>>, res |-> 0]
\* sources is the history of the transfers whose measurements entered results
\* or res: the status and the bytes received of each
IdleDl == [st |-> "idle", testSize |-> "none", server |-> 0, url |-> NoDownload,
           expectedSize |-> 0, i |-> 0, results |-> <<>>, fallback |-> FALSE,
           sources |-> <<>>, res |-> Sentinel]
\* tried lists the upload methods called so far and speeds what each gave:
\* the speed of its result, or 0 when it raised (the catch block of the loop
\* goes on to the next method, as the loop does after a speed of 0)
IdleUl == [st |-> "idle", testSize |-> "none", tempFile |-> -1, method |-> 0,
           tried |-> <<>>, speeds |-> <<>>, res |-> Sentinel]
IdleQs == [st |-> "idle", download |-> 0, res |-> [download |-> 0, upload |-> 0]]
IdleRs == [st |-> "idle", testSize |-> "none", publicIP |-> Undefined,
           isp |-> Undefined, ran |-> <<>>, bestServer |-> 0,
           downloadResult |-> Sentinel, uploadResult |-> Sentinel,
           res |-> Undefined]
IdleWh == [st |-> "idle", currentNetwork |-> NoNetwork, networks |-> <<>>,
           latencyTest |-> NoReply, res |-> Undefined]
NoLast == [op |-> "none", kind |-> "none", val |-> Undefined]

\* no helper function is being evaluated on its own
NoCall == [fn |-> "none", st |-> "idle", args |-> <<>>, res |-> <<>>]

\* the BSSIDs of the networks passed to analyzeSignal
Bssids == {"aa:aa", "bb:bb"}

\* new Map(): no BSSID has a history
NoHistory == [b \in {} |-> <<>>]

\* A scanDevices call and the sweep of its discoverNetworkDevices call.  A
\* device is known by the last number of its address.  arp is the list built
\* from the ARP table, host the state of the ping and of the MAC lookup of each
\* swept host, devices the array of discoverNetworkDevices, res the array
\* scanDevices returned.
IdleScan == [st |-> "idle", pc |-> "none", arp |-> <<>>, gateway |-> 0,
             host |-> [h \in 1..MaxHost |-> "none"], devices |-> <<>>,
             res |-> <<>>]

\* The Dashboard.  An updateData call, its scan and the result of that scan
\* are known by the call's number, in the order the calls were made; 0 is
\* the empty networks and devices of the constructor.  stored is the scan in
\* this.networks and this.devices.  History: failed holds the scans that
\* raised, log the [scan, against] of every detectAnomalies call in order,
\* scan compared against what was stored then.
IdleDash == [phase |-> "idle", running |-> FALSE, started |-> 0,
             inflight |-> {}, failed |-> {}, stored |-> 0, log |-> <<>>]

\* a testUploadSpeedImproved call among several: opened tells whether the
\* curl of the running method found the payload when it was started
IdleUp == [st |-> "idle", tempFile |-> -1, method |-> 0, opened |-> FALSE,
           res |-> Sentinel]

\* the tester after construction: no call runs, no file exists
Quiet ==
    /\ pc = "idle"
    /\ stack = <<>>
    /\ op = "none"
    /\ last = NoLast
    /\ now = 0
    /\ tmpFiles = {}
    /\ anyOk = FALSE
    /\ lt = IdleLt
    /\ fb = IdleFb
    /\ dl = IdleDl
    /\ ul = IdleUl
    /\ qs = IdleQs
    /\ rs = IdleRs
    /\ wh = IdleWh
    /\ ups = [k \in 1..Invocations |-> IdleUp]
    /\ signalHistory = NoHistory
    /\ recorded = [b \in Bssids |-> 0]
    /\ scan = IdleScan
    /\ dash = IdleDash

Init == Quiet /\ call = NoCall

\* control goes back to the caller
Return == pc' = Head(stack) /\ stack' = Tail(stack)

\* the millisecond clock advances
Tick ==
    /\ now < MaxNow
    /\ now' = now + 1
    /\ UNCHANGED <<aside, anyOk, pc, stack, op, last, tmpFiles, lt, fb, dl, ul, qs, rs, wh>>

-----------------------------------------------------------------------------
(* testLatency(host, count) *)

\* the call: `ping -c ${count} ${host}` is started, whatever count is
StartLatency(count, retLabel, stk) ==
    /\ lt' = [IdleLt EXCEPT !.st = "run", !.count = count]
    /\ pc' = "lt_ping"
    /\ stack' = <<retLabel>> \o stk

\* the ping command ends: the try block computes the statistics, the catch
\* block and the empty list give the no-reply value
LtPing ==
    /\ pc = "lt_ping"
    /\ \E out \in PingOutcomes(lt.count) :
          /\ lt' = [lt EXCEPT !.st = "returned", !.out = out,
                              !.res = LatencyResult(lt.count, out)]
          /\ anyOk' = (anyOk \/ (out.ok /\ Len(out.times) > 0))
    /\ Return
    /\ UNCHANGED <<aside, op, last, now, tmpFiles, fb, dl, ul, qs, rs, wh>>

\* the CLI's ping command: testLatency(options.host, parseInt(options.count))
CallTestLatency ==
    /\ pc = "idle"
    /\ \E count \in CountValues : StartLatency(count, "top", <<>>)
    /\ op' = "testLatency"
    /\ last' = NoLast
    /\ anyOk' = FALSE
    /\ UNCHANGED <<aside, now, tmpFiles, fb, dl, ul, qs, rs, wh>>

-----------------------------------------------------------------------------
(* findBestServer() *)

StartFindBestServer(retLabel, stk) ==
    /\ fb' = [IdleFb EXCEPT !.st = "run", !.i = 1]
    /\ pc' = "fb_probe"
    /\ stack' = <<retLabel>> \o stk

\* one turn of the loop: the reachability check of server i ends, and the
\* next one starts or the best server is returned
FbProbe ==
    /\ pc = "fb_probe"
    /\ \E out \in ProbeOutcomes :
          LET results == IF out.ok
                         THEN Append(fb.results,
                                     [server |-> fb.i, responseTime |-> out.ms])
                         ELSE fb.results
          IN  /\ anyOk' = (anyOk \/ out.ok)
              /\ IF fb.i < ProbedServers
                 THEN /\ fb' = [fb EXCEPT !.i = fb.i + 1, !.results = results]
                      /\ UNCHANGED <<pc, stack>>
                 ELSE /\ fb' = [fb EXCEPT !.st = "returned",
                                          !.results = results,
                                          !.res = BestServer(results)]
                      /\ Return
    /\ UNCHANGED <<aside, op, last, now, tmpFiles, lt, dl, ul, qs, rs, wh>>

\* the candidates whose reachability check has been started by the running
\* call: the loop awaits check i before it starts check i + 1
ChecksStarted == IF fb.st = "run" THEN 1..fb.i ELSE {}

\* the checks started and not ended: the one the loop is awaiting
ChecksInFlight == IF pc = "fb_probe" THEN {fb.i} ELSE {}

-----------------------------------------------------------------------------
(* testDownloadSpeedImproved(testSize, server) *)

\* The call.  sizeMap is built before the try block: server.download.replace
\* raises a TypeError for a server without a download target, and the
\* exception leaves the method.  Otherwise the first trial starts.
StartDownload(testSize, server, retLabel, stk) ==
    IF speedTestServers[server].download = NoDownload
    THEN /\ dl' = [IdleDl EXCEPT !.st = "raised", !.testSize = testSize,
                                 !.server = server]
         /\ pc' = retLabel
         /\ stack' = stk
    ELSE /\ dl' = [IdleDl EXCEPT !.st = "run", !.testSize = testSize,
                                 !.server = server, !.i = 1,
                                 !.url = DownloadConfig(testSize, server).url,
                                 !.expectedSize =
                                     DownloadConfig(testSize, server).size]
         /\ pc' = "dl_trial"
         /\ stack' = <<retLabel>> \o stk

\* one turn of the trial loop; after the last one the best kept trial is
\* returned, or 'All download tests failed' is thrown and caught and the
\* fallback transfer starts
DlTrial ==
    /\ pc = "dl_trial"
    /\ \E out \in TrialOutcomes :
          LET results == IF TrialKept(out)
                         THEN Append(dl.results, TrialResult(out))
                         ELSE dl.results
              sources == IF TrialKept(out)
                         THEN Append(dl.sources,
                                     [http |-> out.http, size |-> out.size])
                         ELSE dl.sources
          IN  /\ anyOk' = (anyOk \/ out.ok)
              /\ IF dl.i < NumTests(dl.testSize)
                 THEN /\ dl' = [dl EXCEPT !.i = dl.i + 1, !.results = results,
                                          !.sources = sources]
                      /\ UNCHANGED <<pc, stack>>
                 ELSE IF Len(results) = 0
                 THEN /\ dl' = [dl EXCEPT !.results = results,
                                          !.sources = sources,
                                          !.fallback = TRUE]
                      /\ pc' = "dl_fallback"
                      /\ UNCHANGED stack
                 ELSE /\ dl' = [dl EXCEPT !.st = "returned",
                                          !.results = results,
                                          !.sources = sources,
                                          !.res = BestTrial(results)]
                      /\ Return
    /\ UNCHANGED <<aside, op, last, now, tmpFiles, lt, fb, ul, qs, rs, wh>>

\* the fallback transfer of the catch block ends: its rejection leaves the
\* method (nothing catches it), its completion gives the coarse result
DlFallback ==
    /\ pc = "dl_fallback"
    /\ \E out \in FallbackOutcomes :
          /\ anyOk' = (anyOk \/ out.ok)
          /\ IF out.ok
             THEN dl' = [dl EXCEPT !.st = "returned",
                                   !.sources = <<[http |-> out.http,
                                                  size |-> out.size]>>,
                                   !.res = FallbackResult(dl.expectedSize, out)]
             ELSE dl' = [dl EXCEPT !.st = "raised"]
    /\ Return
    /\ UNCHANGED <<aside, op, last, now, tmpFiles, lt, fb, ul, qs, rs, wh>>

-----------------------------------------------------------------------------
(* testUploadSpeedImproved(testSize) *)

\* The call: the payload is created under the name of the current millisecond.
\* When creating it raises, the catch block removes the file and the sentinel
\* is returned at once; otherwise the first upload method starts.
StartUpload(testSize, retLabel, stk) ==
    \E w \in WriteOutcomes :
        IF w = "written"
        THEN /\ ul' = [IdleUl EXCEPT !.st = "run", !.testSize = testSize,
                                     !.tempFile = now, !.method = 1]
             /\ tmpFiles' = tmpFiles \cup {now}
             /\ pc' = "ul_method"
             /\ stack' = <<retLabel>> \o stk
        ELSE /\ ul' = [IdleUl EXCEPT !.st = "returned", !.testSize = testSize,
                                     !.tempFile = now, !.res = Sentinel]
             /\ tmpFiles' = Unlink(IF w = "partial" THEN tmpFiles \cup {now}
                                   ELSE tmpFiles, now)
             /\ pc' = retLabel
             /\ stack' = stk

\* one turn of the loop over uploadTests: the method's curl ends.  A result of
\* nonzero speed ends the loop; after the loop the file is removed and the
\* result, or the sentinel, is returned.
UlMethod ==
    /\ pc = "ul_method"
    /\ \E out \in UploadOutcomes :
          LET tried == Append(ul.tried, ul.method)
              speeds == Append(ul.speeds, IF out.ok THEN UploadResult(out).speed
                                          ELSE 0)
          IN  /\ anyOk' = (anyOk \/ out.ok)
              /\ IF UploadAccepted(out)
                 THEN /\ ul' = [ul EXCEPT !.st = "returned", !.tried = tried,
                                          !.speeds = speeds,
                                          !.res = UploadResult(out)]
                      /\ tmpFiles' = Unlink(tmpFiles, ul.tempFile)
                      /\ Return
                 ELSE IF ul.method < UploadMethods
                 THEN /\ ul' = [ul EXCEPT !.method = ul.method + 1,
                                          !.tried = tried,
                                          !.speeds = speeds]
                      /\ UNCHANGED <<pc, stack, tmpFiles>>
                 ELSE /\ ul' = [ul EXCEPT !.st = "returned", !.tried = tried,
                                          !.speeds = speeds,
                                          !.res = Sentinel]
                      /\ tmpFiles' = Unlink(tmpFiles, ul.tempFile)
                      /\ Return
    /\ UNCHANGED <<aside, op, last, now, lt, fb, dl, qs, rs, wh>>

-----------------------------------------------------------------------------
(* runQuickSpeedTest() *)

\* the server the quick test uses, speedTestServers[2], by position from 1
QuickServer == 3

\* speedTestServers.find(s => s.download) || speedTestServers[1]
FallbackServer ==
    IF \E k \in DOMAIN speedTestServers : speedTestServers[k].download # NoDownload
    THEN CHOOSE k \in DOMAIN speedTestServers :
            /\ speedTestServers[k].download # NoDownload
            /\ \A j \in 1 .. (k - 1) : speedTestServers[j].download = NoDownload
    ELSE 2

StartQuickSpeedTest(retLabel, stk) ==
    /\ qs' = [IdleQs EXCEPT !.st = "run"]
    /\ StartDownload("small", QuickServer, "qs_after_dl", <<retLabel>> \o stk)

\* the first download ended: the upload follows, or the catch block starts
\* the download from the fallback server
QsAfterDownload ==
    /\ pc = "qs_after_dl"
    /\ dl.st \in {"returned", "raised"}
    /\ IF dl.st = "returned"
       THEN /\ qs' = [qs EXCEPT !.download = dl.res.speed]
            /\ StartUpload("small", "qs_after_ul", stack)
            /\ dl' = IdleDl
       ELSE /\ StartDownload("small", FallbackServer, "qs_after_dl2", stack)
            /\ UNCHANGED <<qs, ul, tmpFiles>>
    /\ UNCHANGED <<aside, anyOk, op, last, now, lt, fb, rs, wh>>

QsAfterUpload ==
    /\ pc = "qs_after_ul"
    /\ ul.st = "returned"
    /\ qs' = [qs EXCEPT !.st = "returned",
                        !.res = [download |-> qs.download, upload |-> ul.res.speed]]
    /\ ul' = IdleUl
    /\ Return
    /\ UNCHANGED <<aside, anyOk, op, last, now, tmpFiles, lt, fb, dl, rs, wh>>

\* the download of the catch block ended: its speed with upload 0, or zeros
QsAfterFallback ==
    /\ pc = "qs_after_dl2"
    /\ dl.st \in {"returned", "raised"}
    /\ qs' = [qs EXCEPT !.st = "returned",
                        !.res = IF dl.st = "returned"
                                THEN [download |-> dl.res.speed, upload |-> 0]
                                ELSE [download |-> 0, upload |-> 0]]
    /\ dl' = IdleDl
    /\ Return
    /\ UNCHANGED <<aside, anyOk, op, last, now, tmpFiles, lt, fb, ul, rs, wh>>

-----------------------------------------------------------------------------
(* runSpeedTest(testSize) *)

\* the sample count of the speed test's latency measurement
SpeedTestPings == 10

\* The deadlines of the curl commands, in seconds (0: none): curl's --max-time
\* and the timeout option of execAsync.  probe is the reachability check,
\* trial and fallback the two transfers of the download test, upload each
\* upload method, publicIP and isp the lookups of getPublicIP and getISP.
Deadlines ==
    [ probe    |-> [maxTime |-> 5,   timeout |-> 6],
      trial    |-> [maxTime |-> 120, timeout |-> 130],
      fallback |-> [maxTime |-> 60,  timeout |-> 0],
      upload   |-> [maxTime |-> 120, timeout |-> 130],
      publicIP |-> [maxTime |-> 0,   timeout |-> 0],
      isp      |-> [maxTime |-> 0,   timeout |-> 0] ]

\* the command ends, at its deadline at the latest, whatever the host does
Bounded(command) ==
    Deadlines[command].maxTime > 0 \/ Deadlines[command].timeout > 0

\* the host accepts the connection and never answers
Silent == "silent"

\* What a host that never answers adds to the outcomes of a command: nothing
\* when the command is bounded (it is rejected at its deadline, an outcome
\* it has anyway), else the command that never ends
Unanswered(command) == IF Bounded(command) THEN {} ELSE {Silent}

\* the lookups of getPublicIP: the first or the second answers, or none
PublicIPOutcomes == {"first", "second", "failed"}

\* getPublicIP
PublicIP(out) == IF out = "failed" THEN "unknown" ELSE "203.0.113.7"

\* the lookup of getISP: an answer with or without an org, or none
ISPOutcomes == {"org", "no org", "failed"}

\* getISP
ISP(out) == IF out = "org" THEN "ExampleNet" ELSE "Unknown ISP"

\* the speed command of the CLI: runSpeedTest(options.size)
CallRunSpeedTest ==
    /\ pc = "idle"
    /\ \E size \in TestSizes :
          rs' = [IdleRs EXCEPT !.st = "run", !.testSize = size]
    /\ pc' = "rs_ip"
    /\ stack' = <<"top">>
    /\ op' = "runSpeedTest"
    /\ last' = NoLast
    /\ anyOk' = FALSE
    /\ UNCHANGED <<aside, now, tmpFiles, lt, fb, dl, ul, qs, wh>>

\* getPublicIP ends and getISP is called, or the await stays pending for ever
RsPublicIP ==
    /\ pc = "rs_ip"
    /\ \E out \in PublicIPOutcomes \cup Unanswered("publicIP") :
          IF out = Silent
          THEN /\ pc' = "pending"
               /\ UNCHANGED <<rs, anyOk>>
          ELSE /\ rs' = [rs EXCEPT !.publicIP = PublicIP(out)]
               /\ anyOk' = (anyOk \/ out # "failed")
               /\ pc' = "rs_isp"
    /\ UNCHANGED <<aside, stack, op, last, now, tmpFiles, lt, fb, dl, ul, qs, wh>>

\* getISP ends and findBestServer is called, or the await stays pending for
\* ever
RsISP ==
    /\ pc = "rs_isp"
    /\ \E out \in ISPOutcomes \cup Unanswered("isp") :
          IF out = Silent
          THEN /\ pc' = "pending"
               /\ UNCHANGED <<rs, anyOk, fb, stack>>
          ELSE /\ rs' = [rs EXCEPT !.isp = ISP(out)]
               /\ anyOk' = (anyOk \/ out # "failed")
               /\ StartFindBestServer("rs_after_find", stack)
    /\ UNCHANGED <<aside, op, last, now, tmpFiles, lt, dl, ul, qs, wh>>

\* (findBestServer returned: the download test and the upload test are
\* started together)
RsAfterFindBoth ==
    /\ pc = "rs_after_find"
    /\ fb.st = "returned"
    /\ rs' = [rs EXCEPT !.bestServer = fb.res, !.ran = Append(rs.ran, "server")]
    /\ fb' = IdleFb
    /\ StartDownload(rs.testSize, fb.res, "rs_after_dl", stack)
    /\ ul' = [IdleUl EXCEPT !.st = "run", !.testSize = rs.testSize,
                            !.tempFile = now, !.method = 1]
    /\ UNCHANGED <<aside, anyOk, op, last, now, tmpFiles, lt, qs, wh>>

\* findBestServer returned: the download test is called with its server
RsAfterFind ==
    /\ pc = "rs_after_find"
    /\ fb.st = "returned"
    /\ rs' = [rs EXCEPT !.bestServer = fb.res, !.ran = Append(rs.ran, "server")]
    /\ fb' = IdleFb
    /\ StartDownload(rs.testSize, fb.res, "rs_after_dl", stack)
    /\ UNCHANGED <<aside, anyOk, op, last, now, tmpFiles, lt, ul, qs, wh>>

\* the download test ended: the upload test is called; an exception of the
\* download test is logged and thrown again by the catch block
RsAfterDownload ==
    /\ pc = "rs_after_dl"
    /\ dl.st \in {"returned", "raised"}
    /\ IF dl.st = "returned"
       THEN /\ rs' = [rs EXCEPT !.downloadResult = dl.res,
                                !.ran = Append(rs.ran, "download")]
            /\ StartUpload(rs.testSize, "rs_after_ul", stack)
       ELSE /\ rs' = [rs EXCEPT !.st = "raised"]
            /\ Return
            /\ UNCHANGED <<ul, tmpFiles>>
    /\ dl' = IdleDl
    /\ UNCHANGED <<aside, anyOk, op, last, now, lt, fb, qs, wh>>

\* the upload test returned: the latency test is called
RsAfterUpload ==
    /\ pc = "rs_after_ul"
    /\ ul.st = "returned"
    /\ rs' = [rs EXCEPT !.uploadResult = ul.res,
                        !.ran = Append(rs.ran, "upload")]
    /\ ul' = IdleUl
    /\ StartLatency(SpeedTestPings, "rs_after_ping", stack)
    /\ UNCHANGED <<aside, anyOk, op, last, now, tmpFiles, fb, dl, qs, wh>>

\* the SpeedTestResult built from the locals and the latency test
SpeedTestResult(r, pingResult) ==
    [download  |-> r.downloadResult,
     upload    |-> r.uploadResult,
     ping      |-> [latency |-> pingResult.avg, jitter |-> pingResult.jitter,
                    packetLoss |-> pingResult.loss],
     server    |-> [name |-> speedTestServers[r.bestServer].name,
                    location |-> speedTestServers[r.bestServer].location],
     isp       |-> r.isp,
     publicIP  |-> r.publicIP]

\* the latency test returned: the result is built and returned
RsAfterPing ==
    /\ pc = "rs_after_ping"
    /\ lt.st = "returned"
    /\ rs' = [rs EXCEPT !.st = "returned", !.ran = Append(rs.ran, "latency"),
                        !.res = SpeedTestResult(rs, lt.res)]
    /\ lt' = IdleLt
    /\ Return
    /\ UNCHANGED <<aside, anyOk, op, last, now, tmpFiles, fb, dl, ul, qs, wh>>

-----------------------------------------------------------------------------
(* analyzeWiFiHealth(networks, currentNetwork) *)

\* the signal assumed when the current network has none
NoSignal == -99

\* currentNetwork?.signal || -99
SignalStrength(network) ==
    IF ~network.present \/ network.signal = 0 THEN NoSignal
    ELSE network.signal

getSignalQuality(signal) ==
    IF signal >= -30 THEN "excellent"
    ELSE IF signal >= -50 THEN "good"
    ELSE IF signal >= -70 THEN "fair"
    ELSE "poor"

\* speed in hundredths of a Mbps
getSpeedRating(speed) ==
    IF speed >= 100 * 100 THEN "excellent"
    ELSE IF speed >= 25 * 100 THEN "good"
    ELSE IF speed >= 5 * 100 THEN "fair"
    ELSE "poor"

\* latency in hundredths of a millisecond
getLatencyRating(latency) ==
    IF latency <= 20 * 100 THEN "excellent"
    ELSE IF latency <= 50 * 100 THEN "good"
    ELSE IF latency <= 100 * 100 THEN "fair"
    ELSE "poor"

Abs(x) == IF x < 0 THEN -x ELSE x
Min(a, b) == IF a <= b THEN a ELSE b

\* networks is the list of the channels of the scanned networks
analyzeChannelCongestion(networks, currentChannel) ==
    IF currentChannel = 0 THEN 0
    ELSE LET same   == {k \in DOMAIN networks : networks[k] = currentChannel}
             nearby == {k \in DOMAIN networks :
                            /\ Abs(networks[k] - currentChannel) <= 2
                            /\ networks[k] # currentChannel}
         IN  Min(100, Cardinality(same) * 30 + Cardinality(nearby) * 10)

\* security.includes(word), security being the lower-cased join of the
\* network's security list, here the set of the protocol names in it
SecurityIncludes(security, word) ==
    IF word = "wpa" THEN security \cap {"wpa", "wpa2", "wpa3"} # {}
    ELSE word \in security

analyzeSecurityLevel(network) ==
    IF ~network.present \/ ~network.hasSecurity THEN "vulnerable"
    ELSE IF SecurityIncludes(network.security, "wpa3") THEN "secure"
    ELSE IF SecurityIncludes(network.security, "wpa2") THEN "secure"
    ELSE IF SecurityIncludes(network.security, "wpa") THEN "warning"
    ELSE IF SecurityIncludes(network.security, "wep") THEN "vulnerable"
    ELSE IF SecurityIncludes(network.security, "open") THEN "vulnerable"
    ELSE "warning"

\* (a score whose latency points are not in the order of the bands)
HealthScoreUnordered(factors) ==
      (IF factors.signal = "excellent" THEN 30
       ELSE IF factors.signal = "good" THEN 22
       ELSE IF factors.signal = "fair" THEN 15 ELSE 5)
    + (IF factors.speed >= 100 * 100 THEN 25
       ELSE IF factors.speed >= 25 * 100 THEN 20
       ELSE IF factors.speed >= 5 * 100 THEN 12 ELSE 3)
    + (IF factors.latency <= 20 * 100 THEN 15
       ELSE IF factors.latency <= 50 * 100 THEN 20
       ELSE IF factors.latency <= 100 * 100 THEN 8 ELSE 2)
    + (IF factors.congestion <= 30 THEN 15
       ELSE IF factors.congestion <= 60 THEN 10 ELSE 3)
    + (IF factors.security = "secure" THEN 10
       ELSE IF factors.security = "warning" THEN 5 ELSE 0)

\* the score of calculateOverallHealth; speed and latency in hundredths
HealthScore(factors) ==
      (IF factors.signal = "excellent" THEN 30
       ELSE IF factors.signal = "good" THEN 22
       ELSE IF factors.signal = "fair" THEN 15 ELSE 5)
    + (IF factors.speed >= 100 * 100 THEN 25
       ELSE IF factors.speed >= 25 * 100 THEN 20
       ELSE IF factors.speed >= 5 * 100 THEN 12 ELSE 3)
    + (IF factors.latency <= 20 * 100 THEN 20
       ELSE IF factors.latency <= 50 * 100 THEN 15
       ELSE IF factors.latency <= 100 * 100 THEN 8 ELSE 2)
    + (IF factors.congestion <= 30 THEN 15
       ELSE IF factors.congestion <= 60 THEN 10 ELSE 3)
    + (IF factors.security = "secure" THEN 10
       ELSE IF factors.security = "warning" THEN 5 ELSE 0)

\* (a rating whose limits are exclusive)
HealthRatingAbove(factors) ==
    LET score == HealthScore(factors)
    IN  IF score > 85 THEN "excellent"
        ELSE IF score > 70 THEN "good"
        ELSE IF score > 50 THEN "fair"
        ELSE IF score > 30 THEN "poor"
        ELSE "critical"

calculateOverallHealth(factors) ==
    LET score == HealthScore(factors)
    IN  IF score >= 85 THEN "excellent"
        ELSE IF score >= 70 THEN "good"
        ELSE IF score >= 50 THEN "fair"
        ELSE IF score >= 30 THEN "poor"
        ELSE "critical"

\* congestion.level of the report
CongestionLevel(channelUtilization) ==
    IF channelUtilization > 70 THEN "high"
    ELSE IF channelUtilization > 40 THEN "medium"
    ELSE "low"

getSecurityIssues(network) ==
    IF ~network.present \/ ~network.hasSecurity
    THEN <<"No security information available">>
    ELSE (IF SecurityIncludes(network.security, "open")
          THEN <<"Network is open - no encryption">> ELSE <<>>)
      \o (IF SecurityIncludes(network.security, "wep")
          THEN <<"WEP encryption is vulnerable">> ELSE <<>>)
      \o (IF /\ SecurityIncludes(network.security, "wpa")
             /\ ~SecurityIncludes(network.security, "wpa2")
             /\ ~SecurityIncludes(network.security, "wpa3")
          THEN <<"Old WPA encryption has vulnerabilities">> ELSE <<>>)

\* latency and jitter in hundredths of a millisecond
generateHealthRecommendations(health, factors) ==
       (IF factors.signal < -70
        THEN <<"Move closer to the router or consider a WiFi extender">>
        ELSE <<>>)
    \o (IF factors.latency > 100 * 100
        THEN <<"High latency detected - check for network congestion">>
        ELSE <<>>)
    \o (IF factors.jitter > 20 * 100
        THEN <<"High jitter detected - may affect video calls and gaming">>
        ELSE <<>>)
    \o (IF factors.congestion > 70
        THEN <<"Switch to 5GHz band or less congested channel">> ELSE <<>>)
    \o (IF factors.security # "secure"
        THEN <<"Use WPA2 or WPA3 security for better protection">> ELSE <<>>)
    \o (IF health \in {"poor", "critical"}
        THEN <<"Consider upgrading your internet plan or router">> ELSE <<>>)

\* the WifiHealth report, built once both measurements are in
HealthReport(networks, currentNetwork, latencyTest, speedTest) ==
    LET signalStrength == SignalStrength(currentNetwork)
        signalQuality == getSignalQuality(signalStrength)
        channelUtilization ==
            analyzeChannelCongestion(
                networks,
                IF currentNetwork.present THEN currentNetwork.channel ELSE 0)
        securityLevel == analyzeSecurityLevel(currentNetwork)
        overallHealth ==
            calculateOverallHealth(
                [signal |-> signalQuality, latency |-> latencyTest.avg,
                 jitter |-> latencyTest.jitter, speed |-> speedTest.download,
                 congestion |-> channelUtilization, security |-> securityLevel])
    IN  [overall    |-> overallHealth,
         signal     |-> [strength |-> signalStrength, quality |-> signalQuality,
                         stability |-> IF latencyTest.jitter < 10 * 100
                                       THEN "stable" ELSE "unstable"],
         speed      |-> [download |-> speedTest.download,
                         upload |-> speedTest.upload,
                         rating |-> getSpeedRating(speedTest.download)],
         latency    |-> [ping |-> latencyTest.avg, jitter |-> latencyTest.jitter,
                         rating |-> getLatencyRating(latencyTest.avg)],
         congestion |-> [level |-> CongestionLevel(channelUtilization),
                         channelUtilization |-> channelUtilization],
         security   |-> [level |-> securityLevel,
                         issues |-> getSecurityIssues(currentNetwork)],
         recommendations |->
             generateHealthRecommendations(
                 overallHealth,
                 [signal |-> signalStrength, latency |-> latencyTest.avg,
                  jitter |-> latencyTest.jitter,
                  congestion |-> channelUtilization,
                  security |-> securityLevel])]

\* the sample count of the health analysis' latency measurement
HealthPings == 5

\* the current network the health command passes: none, or its signal (dBm),
\* channel and security list
CurrentNetworks ==
    { NoNetwork,
      [present |-> TRUE, signal |-> -25, channel |-> 6,
       hasSecurity |-> TRUE, security |-> {"wpa2", "wpa3"}],
      [present |-> TRUE, signal |-> -45, channel |-> 6,
       hasSecurity |-> TRUE, security |-> {"wpa"}],
      [present |-> TRUE, signal |-> -65, channel |-> 1,
       hasSecurity |-> TRUE, security |-> {"open"}],
      [present |-> TRUE, signal |-> -80, channel |-> 11,
       hasSecurity |-> FALSE, security |-> {}] }

\* the scanned networks the health command passes, by their channels
NetworkLists ==
    { <<>>, <<6>>, <<6, 4, 7>>, <<6, 6, 7>>, <<6, 6, 6, 5>>, <<1, 6, 11, 11>> }

\* the health command of the CLI: the latency test is called first
CallAnalyzeWiFiHealth ==
    /\ pc = "idle"
    /\ \E net \in CurrentNetworks, nets \in NetworkLists :
          wh' = [IdleWh EXCEPT !.st = "run", !.currentNetwork = net,
                               !.networks = nets]
    /\ StartLatency(HealthPings, "wh_after_lat", <<"top">>)
    /\ op' = "analyzeWiFiHealth"
    /\ last' = NoLast
    /\ anyOk' = FALSE
    /\ UNCHANGED <<aside, now, tmpFiles, fb, dl, ul, qs, rs>>

\* the latency test returned: the quick speed test is called
WhAfterLatency ==
    /\ pc = "wh_after_lat"
    /\ lt.st = "returned"
    /\ wh' = [wh EXCEPT !.latencyTest = lt.res]
    /\ lt' = IdleLt
    /\ StartQuickSpeedTest("wh_after_quick", stack)
    /\ UNCHANGED <<aside, anyOk, op, last, now, tmpFiles, fb, ul, rs>>

\* the quick speed test returned: the report is built and returned
WhAfterQuick ==
    /\ pc = "wh_after_quick"
    /\ qs.st = "returned"
    /\ wh' = [wh EXCEPT !.st = "returned",
                        !.res = HealthReport(wh.networks, wh.currentNetwork,
                                             wh.latencyTest, qs.res)]
    /\ qs' = IdleQs
    /\ Return
    /\ UNCHANGED <<aside, anyOk, op, last, now, tmpFiles, lt, fb, dl, ul, rs>>

-----------------------------------------------------------------------------
(* calculateQualityOfService(): the report built from the two measurements. *)
(* latency and jitter in hundredths of a millisecond, packetLoss in         *)
(* hundredths of a percent, throughput in hundredths of a Mbps              *)

\* (a classification that takes a band when any of its conditions holds)
classifyQoSAnyOf(metrics) ==
    IF \/ metrics.latency <= 20 * 100 \/ metrics.jitter <= 5 * 100
       \/ metrics.packetLoss <= 10 \/ metrics.throughput >= 50 * 100
    THEN "excellent"
    ELSE IF \/ metrics.latency <= 50 * 100 \/ metrics.jitter <= 10 * 100
            \/ metrics.packetLoss <= 1 * 100 \/ metrics.throughput >= 25 * 100
    THEN "good"
    ELSE IF \/ metrics.latency <= 100 * 100 \/ metrics.jitter <= 20 * 100
            \/ metrics.packetLoss <= 3 * 100 \/ metrics.throughput >= 5 * 100
    THEN "fair"
    ELSE IF \/ metrics.latency <= 200 * 100 \/ metrics.jitter <= 50 * 100
            \/ metrics.packetLoss <= 5 * 100 \/ metrics.throughput >= 1 * 100
    THEN "poor"
    ELSE "unusable"

classifyQoS(metrics) ==
    IF /\ metrics.latency <= 20 * 100 /\ metrics.jitter <= 5 * 100
       /\ metrics.packetLoss <= 10 /\ metrics.throughput >= 50 * 100
    THEN "excellent"
    ELSE IF /\ metrics.latency <= 50 * 100 /\ metrics.jitter <= 10 * 100
            /\ metrics.packetLoss <= 1 * 100 /\ metrics.throughput >= 25 * 100
    THEN "good"
    ELSE IF /\ metrics.latency <= 100 * 100 /\ metrics.jitter <= 20 * 100
            /\ metrics.packetLoss <= 3 * 100 /\ metrics.throughput >= 5 * 100
    THEN "fair"
    ELSE IF /\ metrics.latency <= 200 * 100 /\ metrics.jitter <= 50 * 100
            /\ metrics.packetLoss <= 5 * 100 /\ metrics.throughput >= 1 * 100
    THEN "poor"
    ELSE "unusable"

\* (a video rating that asks 100 Mbps of its best band)
getVideoQualityHD(metrics) ==
    IF /\ metrics.latency <= 50 * 100 /\ metrics.jitter <= 10 * 100
       /\ metrics.throughput >= 100 * 100
    THEN "excellent"
    ELSE IF /\ metrics.latency <= 100 * 100 /\ metrics.jitter <= 20 * 100
            /\ metrics.throughput >= 10 * 100
    THEN "good"
    ELSE IF /\ metrics.latency <= 150 * 100 /\ metrics.jitter <= 30 * 100
            /\ metrics.throughput >= 5 * 100
    THEN "fair"
    ELSE IF metrics.latency <= 200 * 100 /\ metrics.throughput >= 2 * 100
    THEN "poor"
    ELSE "unusable"

getVideoQuality(metrics) ==
    IF /\ metrics.latency <= 50 * 100 /\ metrics.jitter <= 10 * 100
       /\ metrics.throughput >= 25 * 100
    THEN "excellent"
    ELSE IF /\ metrics.latency <= 100 * 100 /\ metrics.jitter <= 20 * 100
            /\ metrics.throughput >= 10 * 100
    THEN "good"
    ELSE IF /\ metrics.latency <= 150 * 100 /\ metrics.jitter <= 30 * 100
            /\ metrics.throughput >= 5 * 100
    THEN "fair"
    ELSE IF metrics.latency <= 200 * 100 /\ metrics.throughput >= 2 * 100
    THEN "poor"
    ELSE "unusable"

getVoiceQuality(metrics) ==
    IF /\ metrics.latency <= 20 * 100 /\ metrics.jitter <= 5 * 100
       /\ metrics.packetLoss <= 10
    THEN "excellent"
    ELSE IF /\ metrics.latency <= 50 * 100 /\ metrics.jitter <= 10 * 100
            /\ metrics.packetLoss <= 1 * 100
    THEN "good"
    ELSE IF /\ metrics.latency <= 100 * 100 /\ metrics.jitter <= 20 * 100
            /\ metrics.packetLoss <= 3 * 100
    THEN "fair"
    ELSE IF metrics.latency <= 150 * 100 /\ metrics.packetLoss <= 5 * 100
    THEN "poor"
    ELSE "unusable"

\* (a gaming rating whose 'good' band asks for a jitter of at least 10 ms)
getGamingQualityReversed(metrics) ==
    IF /\ metrics.latency <= 20 * 100 /\ metrics.jitter <= 5 * 100
       /\ metrics.packetLoss <= 10
    THEN "excellent"
    ELSE IF /\ metrics.latency <= 40 * 100 /\ metrics.jitter >= 10 * 100
            /\ metrics.packetLoss <= 50
    THEN "good"
    ELSE IF /\ metrics.latency <= 80 * 100 /\ metrics.jitter <= 15 * 100
            /\ metrics.packetLoss <= 1 * 100
    THEN "fair"
    ELSE IF metrics.latency <= 120 * 100 /\ metrics.packetLoss <= 2 * 100
    THEN "poor"
    ELSE "unusable"

getGamingQuality(metrics) ==
    IF /\ metrics.latency <= 20 * 100 /\ metrics.jitter <= 5 * 100
       /\ metrics.packetLoss <= 10
    THEN "excellent"
    ELSE IF /\ metrics.latency <= 40 * 100 /\ metrics.jitter <= 10 * 100
            /\ metrics.packetLoss <= 50
    THEN "good"
    ELSE IF /\ metrics.latency <= 80 * 100 /\ metrics.jitter <= 15 * 100
            /\ metrics.packetLoss <= 1 * 100
    THEN "fair"
    ELSE IF metrics.latency <= 120 * 100 /\ metrics.packetLoss <= 2 * 100
    THEN "poor"
    ELSE "unusable"

getBrowsingQuality(metrics) ==
    IF metrics.throughput >= 25 * 100 THEN "excellent"
    ELSE IF metrics.throughput >= 10 * 100 THEN "good"
    ELSE IF metrics.throughput >= 5 * 100 THEN "fair"
    ELSE IF metrics.throughput >= 1 * 100 THEN "poor"
    ELSE "unusable"

\* the QualityOfService value, built once both measurements are in
QoSReport(latencyTest, speedTest) ==
    LET metrics == [latency |-> latencyTest.avg, jitter |-> latencyTest.jitter,
                    packetLoss |-> latencyTest.loss,
                    throughput |-> speedTest.download]
    IN  [classification |-> classifyQoS(metrics),
         metrics        |-> metrics,
         applications   |-> [video    |-> getVideoQuality(metrics),
                             voice    |-> getVoiceQuality(metrics),
                             gaming   |-> getGamingQuality(metrics),
                             browsing |-> getBrowsingQuality(metrics)]]

-----------------------------------------------------------------------------
(* The caller of the public methods *)

\* the frame of the public method that is running
TopFrame ==
    CASE op = "testLatency"       -> lt
      [] op = "runSpeedTest"      -> rs
      [] op = "analyzeWiFiHealth" -> wh

\* the awaiting command of the CLI takes the value, or the exception
Settle ==
    /\ pc = "top"
    /\ last' = [op |-> op, kind |-> TopFrame.st, val |-> TopFrame.res]
    /\ op' = "none"
    /\ pc' = "idle"
    /\ lt' = IdleLt
    /\ rs' = IdleRs
    /\ wh' = IdleWh
    /\ UNCHANGED <<aside, anyOk, stack, now, tmpFiles, fb, dl, ul, qs>>

Next ==
    \/ Tick
    \/ CallTestLatency
    \/ LtPing
    \/ FbProbe
    \/ DlTrial
    \/ DlFallback
    \/ UlMethod
    \/ QsAfterDownload
    \/ QsAfterUpload
    \/ QsAfterFallback
    \/ CallRunSpeedTest
    \/ RsPublicIP
    \/ RsISP
    \/ RsAfterFind
    \/ RsAfterDownload
    \/ RsAfterUpload
    \/ RsAfterPing
    \/ CallAnalyzeWiFiHealth
    \/ WhAfterLatency
    \/ WhAfterQuick
    \/ Settle

Spec == Init /\ [][Next]_vars

-----------------------------------------------------------------------------
(* calculateOverallHealth evaluated on its own: on the factors of a report  *)
(* and on the same factors with one of them changed                         *)

\* the values of the factors: the ratings of getSignalQuality, the levels of
\* analyzeSecurityLevel, and numbers on both sides of every limit of a band
SignalInputs == {"excellent", "good", "fair", "poor"}
SpeedInputs == {4 * 100 + 99, 5 * 100, 24 * 100 + 99, 25 * 100,
                99 * 100 + 99, 100 * 100}
LatencyInputs == {20 * 100, 20 * 100 + 1, 50 * 100, 50 * 100 + 1,
                  100 * 100, 100 * 100 + 1}
CongestionInputs == {30, 31, 60, 61}
SecurityInputs == {"secure", "warning", "vulnerable"}

HealthFactors ==
    [signal : SignalInputs, latency : LatencyInputs, jitter : {0},
     speed : SpeedInputs, congestion : CongestionInputs,
     security : SecurityInputs]

\* the factors f together with f changed in at most one factor
FactorPairs(f) ==
    {<<f, [f EXCEPT !.signal = v]>> : v \in SignalInputs}
        \cup {<<f, [f EXCEPT !.speed = v]>> : v \in SpeedInputs}
        \cup {<<f, [f EXCEPT !.latency = v]>> : v \in LatencyInputs}
        \cup {<<f, [f EXCEPT !.congestion = v]>> : v \in CongestionInputs}
        \cup {<<f, [f EXCEPT !.security = v]>> : v \in SecurityInputs}

InitHealth ==
    /\ Quiet
    /\ \E f \in HealthFactors : \E p \in FactorPairs(f) :
          call = [fn |-> "calculateOverallHealth", st |-> "called",
                  args |-> p, res |-> <<>>]

\* the function is applied to each of the factors: its score and its rating
EvalOverallHealth ==
    /\ call.fn = "calculateOverallHealth"
    /\ call.st = "called"
    /\ call' = [call EXCEPT
                  !.st = "returned",
                  !.res = [k \in DOMAIN call.args |->
                             [score   |-> HealthScore(call.args[k]),
                              overall |-> calculateOverallHealth(call.args[k])]]]
    /\ UNCHANGED <<tester, ups, signalHistory, recorded, scan, dash>>

NextHealth == EvalOverallHealth

HealthSpec == InitHealth /\ [][NextHealth]_vars

-----------------------------------------------------------------------------
(* The report of calculateQualityOfService evaluated on its own, on the     *)
(* values the two measurements can have                                     *)

\* numbers on both sides of the limits of the bands, and the values of a
\* very good connection (15 ms, 3 ms, 0.05 %, 60 Mbps)
QoSLatencyInputs == {15 * 100, 20 * 100 + 1, 50 * 100, 50 * 100 + 1,
                     100 * 100, 150 * 100 + 1, 200 * 100, 200 * 100 + 1}
QoSJitterInputs == {3 * 100, 5 * 100 + 1, 10 * 100, 20 * 100, 20 * 100 + 1,
                    50 * 100, 50 * 100 + 1}
QoSLossInputs == {5, 10, 11, 1 * 100, 3 * 100, 3 * 100 + 1, 5 * 100,
                  5 * 100 + 1}
QoSThroughputInputs == {60 * 100, 50 * 100, 49 * 100 + 99, 25 * 100,
                        24 * 100 + 99, 5 * 100, 1 * 100, 99}

InitQoS ==
    /\ Quiet
    /\ call \in {[fn |-> "calculateQualityOfService", st |-> "called",
                  args |-> <<[avg |-> a, jitter |-> j, loss |-> l],
                             [download |-> t]>>,
                  res |-> <<>>] :
                    a \in QoSLatencyInputs, j \in QoSJitterInputs,
                    l \in QoSLossInputs, t \in QoSThroughputInputs}

\* the report is built from the latency test and the quick speed test
EvalQoS ==
    /\ call.fn = "calculateQualityOfService"
    /\ call.st = "called"
    /\ call' = [call EXCEPT !.st = "returned",
                            !.res = <<QoSReport(call.args[1], call.args[2])>>]
    /\ UNCHANGED <<tester, ups, signalHistory, recorded, scan, dash>>

NextQoS == EvalQoS

QoSSpec == InitQoS /\ [][NextQoS]_vars

-----------------------------------------------------------------------------
(* The trial loop of testDownloadSpeedImproved, on two trials *)

\* the transfers a trial can be: those of TrialOutcomes, two transfers of the
\* 100MB file at about 5 MB/s whose times differ by 1 ms (the same speed
\* after rounding to 0.01 Mbps), and faster and slower ones
TrialInputs ==
    TrialOutcomes \cup
    { [ok |-> TRUE, http |-> "200", size |-> 104857600, rate |-> 5242880,
       timeMs |-> 20000],
      [ok |-> TRUE, http |-> "200", size |-> 104857600, rate |-> 5242617,
       timeMs |-> 20001],
      [ok |-> TRUE, http |-> "200", size |-> 104857600, rate |-> 10485760,
       timeMs |-> 10000],
      [ok |-> TRUE, http |-> "200", size |-> 10485760, rate |-> 10485760,
       timeMs |-> 1000],
      [ok |-> TRUE, http |-> "200", size |-> 10485760, rate |-> 2621440,
       timeMs |-> 4000],
      [ok |-> TRUE, http |-> "200", size |-> 10485760, rate |-> 1048576,
       timeMs |-> 10000] }

\* the array the trial loop leaves: the result of every kept trial, in the
\* order the trials were run
RECURSIVE KeptResults(_)
KeptResults(outs) ==
    IF outs = <<>> THEN <<>>
    ELSE (IF TrialKept(Head(outs)) THEN <<TrialResult(Head(outs))>> ELSE <<>>)
         \o KeptResults(Tail(outs))

InitTrials ==
    /\ Quiet
    /\ call \in {[fn |-> "bestOfTrials", st |-> "called", args |-> <<a, b>>,
                  res |-> <<>>] :
                    a \in {o \in TrialInputs : TrialKept(o)},
                    b \in {o \in TrialInputs : TrialKept(o)}}

\* the loop and the selection are run on the two trials in the order given
\* and in the other order
EvalTrials ==
    /\ call.fn = "bestOfTrials"
    /\ call.st = "called"
    /\ call' = [call EXCEPT
                   !.st = "returned",
                   !.res = <<BestTrial(KeptResults(call.args)),
                             BestTrial(KeptResults(<<call.args[2],
                                                     call.args[1]>>))>>]
    /\ UNCHANGED <<tester, ups, signalHistory, recorded, scan, dash>>

NextTrials == EvalTrials

TrialSpec == InitTrials /\ [][NextTrials]_vars

-----------------------------------------------------------------------------
(* testUploadSpeedImproved calls that run together *)

\* Call k is made: as StartUpload, the payload is created under the name of
\* the current millisecond, in the tmpdir() every call shares.  writeFileSync
\* replaces a file of that name.  After an exception the catch block removes
\* the file of that name and the sentinel is returned.
UpStart(k) ==
    /\ ups[k].st = "idle"
    /\ \E w \in WriteOutcomes :
          IF w = "written"
          THEN /\ ups' = [ups EXCEPT ![k] = [IdleUp EXCEPT !.st = "run",
                                                           !.tempFile = now,
                                                           !.method = 1,
                                                           !.opened = TRUE]]
               /\ tmpFiles' = tmpFiles \cup {now}
          ELSE /\ ups' = [ups EXCEPT ![k] = [IdleUp EXCEPT !.st = "returned",
                                                           !.tempFile = now]]
               /\ tmpFiles' = Unlink(IF w = "partial" THEN tmpFiles \cup {now}
                                     ELSE tmpFiles, now)
    /\ UNCHANGED <<pc, stack, op, last, now, anyOk, lt, fb, dl, ul, qs, rs, wh,
                   call, signalHistory, recorded, scan, dash>>

\* One turn of the loop of call k, as UlMethod: the method's curl ends; it
\* cannot have sent a payload it did not find.  The next method's curl is
\* started, or the file of the call's name is removed and the call returns.
UpMethod(k) ==
    /\ ups[k].st = "run"
    /\ \E out \in UploadOutcomes :
          /\ out.ok => ups[k].opened
          /\ IF UploadAccepted(out)
             THEN /\ ups' = [ups EXCEPT ![k].st = "returned",
                                        ![k].res = UploadResult(out)]
                  /\ tmpFiles' = Unlink(tmpFiles, ups[k].tempFile)
             ELSE IF ups[k].method < UploadMethods
             THEN /\ ups' = [ups EXCEPT ![k].method = ups[k].method + 1,
                                        ![k].opened =
                                            ups[k].tempFile \in tmpFiles]
                  /\ UNCHANGED tmpFiles
             ELSE /\ ups' = [ups EXCEPT ![k].st = "returned"]
                  /\ tmpFiles' = Unlink(tmpFiles, ups[k].tempFile)
    /\ UNCHANGED <<pc, stack, op, last, now, anyOk, lt, fb, dl, ul, qs, rs, wh,
                   call, signalHistory, recorded, scan, dash>>

NextUploads ==
    \/ \E k \in 1..Invocations : UpStart(k)
    \/ \E k \in 1..Invocations : UpMethod(k)
    \/ Tick

UploadsSpec == Init /\ [][NextUploads]_vars

-----------------------------------------------------------------------------
(* SignalAnalyzer.analyzeSignal(networks) *)

\* the size at which a history stops growing
HistoryCapacity == 100

\* this.signalHistory.get(bssid) || []
getSignalHistory(bssid) ==
    IF bssid \in DOMAIN signalHistory THEN signalHistory[bssid] ELSE <<>>

\* (a full history refuses the new reading)
PushReadingKeepOldest(history, reading) ==
    IF Len(history) >= HistoryCapacity THEN history
    ELSE Append(history, reading)

\* history.push(currentReading); if (history.length > 100) history.shift()
PushReading(history, reading) ==
    LET pushed == Append(history, reading)
    IN  IF Len(pushed) > HistoryCapacity THEN Tail(pushed) ELSE pushed

\* The loop over networks, run on the Map `stored`.  A reading is known by its
\* timestamp, which stands here for the number of readings of its BSSID
\* taken up to it (count gives the number taken before the loop turn).
RECURSIVE RecordReadings(_, _, _)
RecordReadings(stored, count, networks) ==
    IF networks = <<>> THEN stored
    ELSE LET bssid == Head(networks)
             history == IF bssid \in DOMAIN stored THEN stored[bssid] ELSE <<>>
             currentReading == [timestamp |-> count[bssid] + 1]
             kept == PushReading(history, currentReading)
         IN  RecordReadings(
                 [b \in DOMAIN stored \cup {bssid} |->
                      IF b = bssid THEN kept ELSE stored[b]],
                 [count EXCEPT ![bssid] = count[bssid] + 1],
                 Tail(networks))

\* the lists of networks of a scan, by their BSSIDs
AnalyzedNetworks ==
    { <<>>, <<"aa:aa">>, <<"bb:bb">>, <<"aa:aa", "bb:bb">>, <<"aa:aa", "aa:aa">>,
      <<"bb:bb", "aa:aa", "bb:bb">> }

\* the number of times bssid is in networks
Occurrences(networks, bssid) ==
    Cardinality({k \in DOMAIN networks : networks[k] = bssid})

\* One call: the body has no await, so the whole loop runs before anything
\* else does.
analyzeSignal ==
    \E networks \in AnalyzedNetworks :
        /\ \A b \in Bssids : recorded[b] + Occurrences(networks, b) <= MaxReadings
        /\ signalHistory' = RecordReadings(signalHistory, recorded, networks)
        /\ recorded' = [b \in Bssids |->
                            recorded[b] + Occurrences(networks, b)]
        /\ UNCHANGED <<tester, call, ups, scan, dash>>

NextHistory == analyzeSignal

HistorySpec == Init /\ [][NextHistory]_vars

-----------------------------------------------------------------------------
(* WiFiScanner.scanDevices() *)

CallScanDevices ==
    /\ scan.st = "idle"
    /\ scan' = [scan EXCEPT !.st = "run", !.pc = "arp"]
    /\ UNCHANGED <<tester, call, ups, signalHistory, recorded, dash>>

\* `arp -a`: rejected, or the devices of its lines on the wifi interface
ArpOutcomes == {[ok |-> FALSE, devices |-> <<>>], [ok |-> TRUE, devices |-> <<>>],
                [ok |-> TRUE, devices |-> <<101>>]}

\* `route -n get default`: rejected, or the last number of the gateway's
\* address (0: the output names no gateway; 254: not a swept host)
RouteOutcomes == {[ok |-> FALSE, gateway |-> 0], [ok |-> TRUE, gateway |-> 0],
                  [ok |-> TRUE, gateway |-> 1], [ok |-> TRUE, gateway |-> 254]}

\* `arp -a` ends: the catch block returns [], or the list is built (the vendor
\* lookups wait for nothing) and discoverNetworkDevices is called
ScArp ==
    /\ scan.pc = "arp"
    /\ \E out \in ArpOutcomes :
          IF out.ok
          THEN scan' = [scan EXCEPT !.arp = out.devices, !.pc = "route"]
          ELSE scan' = [scan EXCEPT !.st = "returned", !.pc = "none",
                                    !.res = <<>>]
    /\ UNCHANGED <<tester, call, ups, signalHistory, recorded, dash>>

\* `route` ends.  Without a gateway discoverNetworkDevices returns its empty
\* array and scanDevices returns the ARP list; otherwise the loop starts the
\* ping of every swept host and Promise.all(pingPromises) is awaited.
ScRoute ==
    /\ scan.pc = "route"
    /\ \E out \in RouteOutcomes :
          IF out.ok /\ out.gateway # 0
          THEN scan' = [scan EXCEPT !.gateway = out.gateway, !.pc = "sweep",
                                    !.host = [h \in 1..MaxHost |-> "pinging"]]
          ELSE scan' = [scan EXCEPT !.st = "returned", !.pc = "none",
                                    !.res = scan.arp]
    /\ UNCHANGED <<tester, call, ups, signalHistory, recorded, dash>>

\* The ping of host h ends: pingDevice gives true or false, and the callback
\* starts getMacForIP for a host that answered and is not the gateway; the
\* promise of that lookup is not returned, so the ping's promise is fulfilled
\* now.  When it was the last ping, Promise.all is fulfilled:
\* discoverNetworkDevices returns its array as it is now, scanDevices copies
\* its elements (devices.push(...additionalDevices)) and returns, before any
\* other callback runs.
PingEnds(h) ==
    /\ scan.pc = "sweep"
    /\ scan.host[h] = "pinging"
    /\ \E isAlive \in BOOLEAN :
          LET host == [scan.host EXCEPT ![h] =
                           IF isAlive /\ h # scan.gateway THEN "lookup"
                           ELSE "done"]
          IN  IF \E g \in 1..MaxHost : host[g] = "pinging"
              THEN scan' = [scan EXCEPT !.host = host]
              ELSE scan' = [scan EXCEPT !.host = host, !.st = "returned",
                                        !.pc = "none",
                                        !.res = scan.arp \o scan.devices]
    /\ UNCHANGED <<tester, call, ups, signalHistory, recorded, dash>>

\* The `arp -n` of host h ends, during the sweep or after scanDevices
\* returned: with a MAC address the device is pushed on the array of
\* discoverNetworkDevices.
LookupEnds(h) ==
    /\ scan.host[h] = "lookup"
    /\ \E mac \in BOOLEAN :
          IF mac
          THEN scan' = [scan EXCEPT !.host[h] = "found",
                                    !.devices = Append(scan.devices, h)]
          ELSE scan' = [scan EXCEPT !.host[h] = "nomac"]
    /\ UNCHANGED <<tester, call, ups, signalHistory, recorded, dash>>

NextScan ==
    \/ CallScanDevices
    \/ ScArp
    \/ ScRoute
    \/ \E h \in 1..MaxHost : PingEnds(h)
    \/ \E h \in 1..MaxHost : LookupEnds(h)

ScanSpec == Init /\ [][NextScan]_vars

-----------------------------------------------------------------------------
(* Dashboard *)

\* start(): running is set and the initial updateData is called and awaited
DashStart ==
    /\ dash.phase = "idle"
    /\ dash' = [dash EXCEPT !.phase = "initial", !.running = TRUE,
                            !.started = 1, !.inflight = {1}]
    /\ UNCHANGED <<tester, call, ups, signalHistory, recorded, scan>>

\* The timer of setInterval fires: the callback calls updateData, whatever
\* calls are still waiting for their scans.
TimerFires ==
    /\ dash.phase = "timer"
    /\ dash.running
    /\ dash.started < MaxScans
    /\ dash' = [dash EXCEPT !.started = dash.started + 1,
                            !.inflight = dash.inflight \cup {dash.started + 1}]
    /\ UNCHANGED <<tester, call, ups, signalHistory, recorded, scan>>

\* The Promise.all of updateData call k settles.  Fulfilled: detectAnomalies
\* compares the new lists with this.networks and this.devices, which are
\* then replaced by the new lists.  Rejected: the catch block does nothing.
\* After the initial call start() installs the timer.
ScanEnds(k) ==
    /\ k \in dash.inflight
    /\ \E ok \in BOOLEAN :
          dash' = [dash EXCEPT
                      !.inflight = dash.inflight \ {k},
                      !.phase = IF dash.phase = "initial" THEN "timer"
                                ELSE dash.phase,
                      !.failed = IF ok THEN dash.failed
                                 ELSE dash.failed \cup {k},
                      !.log = IF ok
                              THEN Append(dash.log, [scan |-> k,
                                                     against |-> dash.stored])
                              ELSE dash.log,
                      !.stored = IF ok THEN k ELSE dash.stored]
    /\ UNCHANGED <<tester, call, ups, signalHistory, recorded, scan>>

\* stop(), on SIGINT: process.exit(0) ends every call
DashStop ==
    /\ dash.running
    /\ dash' = [dash EXCEPT !.phase = "stopped", !.running = FALSE,
                            !.inflight = {}]
    /\ UNCHANGED <<tester, call, ups, signalHistory, recorded, scan>>

NextDashboard ==
    \/ DashStart
    \/ TimerFires
    \/ \E k \in 1..MaxScans : ScanEnds(k)
    \/ DashStop

DashboardSpec == Init /\ [][NextDashboard]_vars

-----------------------------------------------------------------------------
(* The QoS ratings on two measurements, the second worse in one metric *)

\* every limit a rating compares a metric with, and a value beyond the last
\* one: a value between two limits is rated as the limit above it (below it,
\* for the throughput)
QoSLatencyLimits == {20 * 100, 40 * 100, 50 * 100, 80 * 100, 100 * 100,
                     120 * 100, 150 * 100, 200 * 100, 200 * 100 + 1}
QoSJitterLimits == {5 * 100, 10 * 100, 15 * 100, 20 * 100, 30 * 100, 50 * 100,
                    50 * 100 + 1}
QoSLossLimits == {10, 50, 1 * 100, 2 * 100, 3 * 100, 5 * 100, 5 * 100 + 1}
QoSThroughputLimits == {50 * 100, 25 * 100, 10 * 100, 5 * 100, 2 * 100, 1 * 100,
                        99}

\* the two measurements of a pair: metric is the one that differs
QoSPair(metric, a, j, l, t, worse) ==
    [fn |-> "qualityOfServicePair", st |-> "called",
     args |-> <<[avg |-> a, jitter |-> j, loss |-> l], [download |-> t],
                [avg |-> IF metric = "latency" THEN worse ELSE a,
                 jitter |-> IF metric = "jitter" THEN worse ELSE j,
                 loss |-> IF metric = "loss" THEN worse ELSE l],
                [download |-> IF metric = "throughput" THEN worse ELSE t]>>,
     res |-> <<>>]

InitQoSPairs ==
    /\ Quiet
    /\ \E a \in QoSLatencyLimits, j \in QoSJitterLimits, l \in QoSLossLimits,
          t \in QoSThroughputLimits :
          \/ \E worse \in {w \in QoSLatencyLimits : w > a} :
                call = QoSPair("latency", a, j, l, t, worse)
          \/ \E worse \in {w \in QoSJitterLimits : w > j} :
                call = QoSPair("jitter", a, j, l, t, worse)
          \/ \E worse \in {w \in QoSLossLimits : w > l} :
                call = QoSPair("loss", a, j, l, t, worse)
          \/ \E worse \in {w \in QoSThroughputLimits : w < t} :
                call = QoSPair("throughput", a, j, l, t, worse)

\* the report is built from each of the two measurements
EvalQoSPair ==
    /\ call.fn = "qualityOfServicePair"
    /\ call.st = "called"
    /\ call' = [call EXCEPT
                   !.st = "returned",
                   !.res = <<QoSReport(call.args[1], call.args[2]),
                             QoSReport(call.args[3], call.args[4])>>]
    /\ UNCHANGED <<tester, ups, signalHistory, recorded, scan, dash>>

NextQoSPairs == EvalQoSPair

QoSPairSpec == InitQoSPairs /\ [][NextQoSPairs]_vars

-----------------------------------------------------------------------------
(* Properties *)

\* C1: when every external command of a runSpeedTest call fails, the call
\* returns (it does not raise) a result with download.speed = 0,
\* upload.speed = 0 and ping.packetLoss = 100.
C1_OutageGivesZeroResult ==
    (last.op = "runSpeedTest" /\ ~anyOk) =>
        /\ last.kind = "returned"
        /\ last.val.download.speed = 0
        /\ last.val.upload.speed = 0
        /\ last.val.ping.packetLoss = 100 * 100

\* C2: whichever sub-measurement of runSpeedTest fails, all four of server
\* selection, download, upload and latency run and the call returns a
\* result: no exception reaches the caller.
C2_AllFourRunAndReturn ==
    (pc = "top" /\ op = "runSpeedTest") =>
        /\ rs.st = "returned"
        /\ rs.ran = <<"server", "download", "upload", "latency">>

\* C3: testDownloadSpeedImproved never raises: once every trial has failed
\* and the fallback transfer has been tried, it has returned (the sentinel
\* when the fallback failed too), it has not raised.
C3_FallbackNeverRaises ==
    (dl.fallback /\ dl.st # "run") =>
        /\ dl.st = "returned"
        /\ Len(dl.results) = 0

\* C4: when testUploadSpeedImproved has finished, on any path, the payload
\* file it created is not in the temp directory.
C4_PayloadRemoved ==
    /\ ul.st # "raised"
    /\ ul.st = "returned" => ul.tempFile \notin tmpFiles

\* C4 witness: the payload was written, all three upload methods failed and
\* the call has returned the sentinel.
C4_Witness ==
    /\ ul.st = "returned"
    /\ ul.tried = <<1, 2, 3>>
    /\ ul.res = Sentinel

\* C5: when every external command of an analyzeWiFiHealth call fails, the
\* call returns a report whose speed.rating and latency.rating are 'poor'.
C5_OutageRatedPoor ==
    (last.op = "analyzeWiFiHealth" /\ ~anyOk) =>
        /\ last.kind = "returned"
        /\ last.val.speed.rating = "poor"
        /\ last.val.latency.rating = "poor"

\* C6: testLatency never raises, and when no echo reply was received (the
\* ping command was rejected or printed no reply time) it returns
\* min = max = avg = jitter = 0, an empty times list and loss = 100.
C6_NoReplyValue ==
    /\ lt.st # "raised"
    /\ (lt.st = "returned" /\ (~lt.out.ok \/ Len(lt.out.times) = 0)) =>
          /\ lt.res.min = 0 /\ lt.res.max = 0 /\ lt.res.avg = 0
          /\ lt.res.jitter = 0
          /\ lt.res.times = <<>>
          /\ lt.res.loss = 100 * 100

\* C6 witness: a ping command for at least one sample was rejected and
\* testLatency has returned.
C6_Witness ==
    /\ lt.st = "returned"
    /\ lt.count >= 1
    /\ ~lt.out.ok

\* the number of reply times the ping command of the latency frame printed
Received == IF lt.out.ok THEN Len(lt.out.times) ELSE 0

\* C7 as stated: for a requested count >= 1 and r <= count replies, loss is
\* exactly (count - r) / count x 100 and times holds the r samples.
C7_ExactLoss ==
    (lt.st = "returned" /\ lt.count >= 1 /\ Received <= lt.count) =>
        /\ lt.res.loss * lt.count = (lt.count - Received) * 100 * 100
        /\ lt.res.times = lt.out.times
        /\ Len(lt.res.times) = Received

\* C7 amended: for a requested count >= 1 and r <= count replies, loss is
\* (count - r) / count x 100 rounded to two decimals (it is a multiple of
\* 0.01 at most 0.005 away from the exact percentage), and times holds
\* exactly the r samples received.
C7_RoundedLoss ==
    (lt.st = "returned" /\ lt.count >= 1 /\ Received <= lt.count) =>
        /\ 2 * Abs(lt.res.loss * lt.count - (lt.count - Received) * 100 * 100)
              <= lt.count
        /\ lt.res.times = lt.out.times
        /\ Len(lt.res.times) = Received

\* C7 witness: one reply of three requested samples was received.
C7_Witness ==
    /\ lt.st = "returned"
    /\ lt.count = 3
    /\ Received = 1

\* C8: the loss testLatency returns lies between 0 and 100, whatever the
\* number of reply times in the ping output.
C8_LossInRange ==
    lt.st = "returned" => (0 <= lt.res.loss /\ lt.res.loss <= 100 * 100)

\* C9: a testLatency call with a sample count below 1 raises; it does not
\* return a LatencyTest value.
C9_BadCountRaises ==
    (lt.count < 1 /\ lt.st \notin {"idle", "run"}) => lt.st = "raised"

\* C10: findBestServer probes only the first 3 servers; it returns a server
\* that answered with the smallest response time among those that answered,
\* the only one that answered when there is just one, and the first
\* configured server when none answered.
C10_BestServer ==
    /\ fb.st \in {"run", "returned"} =>
          /\ fb.i \in 1 .. 3
          /\ \A k \in DOMAIN fb.results : fb.results[k].server \in 1 .. fb.i
    /\ fb.st = "returned" =>
          /\ fb.i = 3
          /\ Len(fb.results) = 0 => fb.res = 1
          /\ Len(fb.results) = 1 => fb.res = fb.results[1].server
          /\ Len(fb.results) > 0 =>
                \E k \in DOMAIN fb.results :
                    /\ fb.results[k].server = fb.res
                    /\ \A j \in DOMAIN fb.results :
                          fb.results[k].responseTime
                              <= fb.results[j].responseTime

\* C10 witness: of the three servers only the second one answered, and it
\* is the one returned.
C10_Witness ==
    /\ fb.st = "returned"
    /\ Len(fb.results) = 1
    /\ fb.results[1].server = 2
    /\ fb.res = 2

\* C11: the server findBestServer returns is usable, also when no candidate
\* answered: it has a download target, on which testDownloadSpeedImproved
\* can start a transfer, and a name and a location for result.server.
C11_ReturnedServerUsable ==
    /\ fb.st = "returned" =>
          /\ speedTestServers[fb.res].download # NoDownload
          /\ speedTestServers[fb.res].name # Undefined
          /\ speedTestServers[fb.res].location # Undefined
    /\ (op = "runSpeedTest" /\ dl.st = "raised") => dl.url # NoDownload

\* the band (1 is the best) of each factor in the table of the health score
SignalBand(f) ==
    CASE f.signal = "excellent" -> 1 [] f.signal = "good" -> 2
      [] f.signal = "fair" -> 3 [] OTHER -> 4
SpeedBand(f) ==
    CASE f.speed >= 10000 -> 1 [] f.speed >= 2500 -> 2
      [] f.speed >= 500 -> 3 [] OTHER -> 4
LatencyBand(f) ==
    CASE f.latency <= 2000 -> 1 [] f.latency <= 5000 -> 2
      [] f.latency <= 10000 -> 3 [] OTHER -> 4
CongestionBand(f) ==
    CASE f.congestion <= 30 -> 1 [] f.congestion <= 60 -> 2 [] OTHER -> 3
SecurityBand(f) ==
    CASE f.security = "secure" -> 1 [] f.security = "warning" -> 2
      [] OTHER -> 3

\* the points of the table
TablePoints(f) ==
      <<30, 22, 15, 5>>[SignalBand(f)] + <<25, 20, 12, 3>>[SpeedBand(f)]
    + <<20, 15, 8, 2>>[LatencyBand(f)] + <<15, 10, 3>>[CongestionBand(f)]
    + <<10, 5, 0>>[SecurityBand(f)]

\* the position of a rating, 1 the best
RatingRank(r) ==
    CASE r = "excellent" -> 1 [] r = "good" -> 2 [] r = "fair" -> 3
      [] r = "poor" -> 4 [] OTHER -> 5

\* C12: the score of calculateOverallHealth is the sum of the points of the
\* table (signal 30/22/15/5, speed 25/20/12/3, latency 20/15/8/2,
\* congestion 15/10/3, security 10/5/0); the rating is 'excellent' from 85,
\* 'good' from 70, 'fair' from 50, 'poor' from 30 and 'critical' below; all
\* factors in their top band give 100 and 'excellent'.
C12_ScoreTable ==
    (call.fn = "calculateOverallHealth" /\ call.st = "returned") =>
        \A k \in DOMAIN call.args :
            LET f == call.args[k]
                r == call.res[k]
            IN  /\ r.score = TablePoints(f)
                /\ r.overall = "excellent" <=> r.score >= 85
                /\ r.overall = "good" <=> (70 <= r.score /\ r.score < 85)
                /\ r.overall = "fair" <=> (50 <= r.score /\ r.score < 70)
                /\ r.overall = "poor" <=> (30 <= r.score /\ r.score < 50)
                /\ r.overall = "critical" <=> r.score < 30
                /\ ( /\ SignalBand(f) = 1 /\ SpeedBand(f) = 1
                     /\ LatencyBand(f) = 1 /\ CongestionBand(f) = 1
                     /\ SecurityBand(f) = 1 )
                      => (r.score = 100 /\ r.overall = "excellent")

\* C12 witness: the function was applied to factors all in their top band
\* and gave 100, 'excellent'.
C12_Witness ==
    /\ call.fn = "calculateOverallHealth" /\ call.st = "returned"
    /\ call.args[1] = [signal |-> "excellent", latency |-> 2000, jitter |-> 0,
                       speed |-> 10000, congestion |-> 30,
                       security |-> "secure"]
    /\ call.res[1] = [score |-> 100, overall |-> "excellent"]

\* g is f with exactly one factor moved to a worse band
OneFactorWorse(f, g) ==
    LET bf == <<SignalBand(f), SpeedBand(f), LatencyBand(f),
                CongestionBand(f), SecurityBand(f)>>
        bg == <<SignalBand(g), SpeedBand(g), LatencyBand(g),
                CongestionBand(g), SecurityBand(g)>>
    IN  \E k \in 1 .. 5 :
            /\ bg[k] > bf[k]
            /\ \A j \in (1 .. 5) \ {k} : bg[j] = bf[j]

\* C13: moving a single factor to a worse band, the others fixed, never
\* increases the score of calculateOverallHealth and never improves the
\* rating.
C13_WorseNeverBetter ==
    ( /\ call.fn = "calculateOverallHealth" /\ call.st = "returned"
      /\ OneFactorWorse(call.args[1], call.args[2]) ) =>
        /\ call.res[2].score <= call.res[1].score
        /\ RatingRank(call.res[2].overall) >= RatingRank(call.res[1].overall)

\* C13 witness: the latency moved from its first to its second band and the
\* rating fell from 'excellent' to 'good'.
C13_Witness ==
    /\ call.fn = "calculateOverallHealth" /\ call.st = "returned"
    /\ OneFactorWorse(call.args[1], call.args[2])
    /\ LatencyBand(call.args[1]) = 1 /\ LatencyBand(call.args[2]) = 2
    /\ call.res[1].overall = "excellent"
    /\ call.res[2].overall = "good"

\* the bands of the QoS classification, best first, with their limits
QoSBands ==
    << [name |-> "excellent", latency |-> 2000, jitter |-> 500, loss |-> 10,
        throughput |-> 5000],
       [name |-> "good", latency |-> 5000, jitter |-> 1000, loss |-> 100,
        throughput |-> 2500],
       [name |-> "fair", latency |-> 10000, jitter |-> 2000, loss |-> 300,
        throughput |-> 500],
       [name |-> "poor", latency |-> 20000, jitter |-> 5000, loss |-> 500,
        throughput |-> 100] >>

\* the metrics m meet all four conditions of the band b
MeetsBand(m, b) ==
    /\ m.latency <= b.latency /\ m.jitter <= b.jitter
    /\ m.packetLoss <= b.loss /\ m.throughput >= b.throughput

\* C14: classifyQoS returns the first band, in the order excellent, good,
\* fair, poor, all four of whose conditions hold (excellent: latency <= 20,
\* jitter <= 5, loss <= 0.1, throughput >= 50; good: 50, 10, 1, 25;
\* fair: 100, 20, 3, 5; poor: 200, 50, 5, 1), and 'unusable' when none does.
C14_FirstBand ==
    (call.fn = "calculateQualityOfService" /\ call.st = "returned") =>
        LET m   == call.res[1].metrics
            met == {k \in DOMAIN QoSBands : MeetsBand(m, QoSBands[k])}
        IN  /\ m = [latency |-> call.args[1].avg, jitter |-> call.args[1].jitter,
                    packetLoss |-> call.args[1].loss,
                    throughput |-> call.args[2].download]
            /\ met = {} => call.res[1].classification = "unusable"
            /\ met # {} =>
                  \E k \in met :
                      /\ \A j \in met : k <= j
                      /\ call.res[1].classification = QoSBands[k].name

\* C14 witness: only the latency keeps the metrics out of the first two
\* bands, and the classification is 'fair'.
C14_Witness ==
    /\ call.fn = "calculateQualityOfService" /\ call.st = "returned"
    /\ call.res[1].metrics = [latency |-> 10000, jitter |-> 300,
                              packetLoss |-> 5, throughput |-> 6000]
    /\ call.res[1].classification = "fair"

\* C15: whenever the overall QoS classification is 'excellent', the ratings
\* of all four applications (video, voice, gaming, browsing) are
\* 'excellent'.
C15_ExcellentEverywhere ==
    ( /\ call.fn = "calculateQualityOfService" /\ call.st = "returned"
      /\ call.res[1].classification = "excellent" ) =>
        /\ call.res[1].applications.video = "excellent"
        /\ call.res[1].applications.voice = "excellent"
        /\ call.res[1].applications.gaming = "excellent"
        /\ call.res[1].applications.browsing = "excellent"

\* C15 witness: latency 15 ms, jitter 3 ms, loss 0.05 % and throughput
\* 60 Mbps were classified 'excellent'.
C15_Witness ==
    /\ call.fn = "calculateQualityOfService" /\ call.st = "returned"
    /\ call.res[1].metrics = [latency |-> 1500, jitter |-> 300,
                              packetLoss |-> 5, throughput |-> 6000]
    /\ call.res[1].classification = "excellent"
    /\ call.res[1].applications.video = "excellent"

\* C16: when at least one download trial was kept, the result of
\* testDownloadSpeedImproved is one of the kept trials and its speed is the
\* largest of their speeds (kept 40.2 and 38.9 Mbps: 40.2).
C16_BestKeptTrial ==
    (dl.st = "returned" /\ Len(dl.results) > 0) =>
        /\ \E k \in DOMAIN dl.results : dl.results[k] = dl.res
        /\ \A k \in DOMAIN dl.results : dl.results[k].speed <= dl.res.speed

\* C16 witness: the trials of 38.9 and of 40.2 Mbps were kept, in this
\* order, and the result is the one of 40.2 Mbps.
C16_Witness ==
    /\ dl.st = "returned"
    /\ Len(dl.results) = 2
    /\ dl.results[1].speed = 3890
    /\ dl.results[2].speed = 4020
    /\ dl.res = dl.results[2]

MeasuredSpeed(bytes, elapsedMs) ==
    LET q    == bytes \div 4096
        r    == (bytes % 4096) * 3125
        twoX == 2 * (q * 3125 + r \div 4096) + (2 * (r % 4096)) \div 4096
    IN  (twoX + elapsedMs) \div (2 * elapsedMs)

\* a transfer result is the sentinel, or it has a positive elapsed time and
\* the speed of its bytes over that time
SoundResult(r) ==
    \/ r = Sentinel
    \/ (r.elapsed > 0 /\ r.speed = MeasuredSpeed(r.bytes, r.elapsed))

\* C18: every result of testDownloadSpeedImproved and of
\* testUploadSpeedImproved is the sentinel {0, 0, 0}, or has elapsed > 0 and
\* speed = (bytes x 8) / (elapsed x 1024 x 1024) rounded to two decimals; a
\* transfer measured with an elapsed time of zero gives the sentinel, never
\* a speed that is not finite or not zero.
C18_SentinelOrMeasured ==
    /\ dl.st = "returned" => SoundResult(dl.res)
    /\ ul.st = "returned" => SoundResult(ul.res)

\* the variance of the times s, times n^2, in microseconds^2: with the
\* distances e[i] = max - s[i], n * sum e^2 - (sum e)^2
SpreadOf(s) ==
    LET n  == Len(s)
        hi == MaxOf(s)
        se == n * hi - SumSeq(s)
    IN  n * SumSq(s, hi) - se * se

\* C19 as stated: for a non-empty list of reply times testLatency reports
\* their mean as avg and the smallest and the largest of them as min and
\* max, and as jitter their population standard deviation (to the nearest
\* 0.01 ms).
C19_ExactStatistics ==
    (lt.st = "returned" /\ Len(lt.res.times) > 0) =>
        LET t == lt.res.times
            n == Len(t)
            J == lt.res.jitter
        IN  /\ lt.res.min * 10 = MinOf(t)
            /\ lt.res.max * 10 = MaxOf(t)
            /\ lt.res.avg * 10 * n = SumSeq(t)
            /\ (J = 0 \/ (2 * J - 1) * (2 * J - 1) * 25 * n * n <= SpreadOf(t))
            /\ SpreadOf(t) < (2 * J + 1) * (2 * J + 1) * 25 * n * n

\* C19 amended: for a non-empty list of reply times testLatency reports, each
\* rounded to two decimals (at most 0.005 ms away from the exact value), their
\* mean as avg, the smallest and the largest of them as min and max, and
\* their population standard deviation (the squares divided by n) as jitter;
\* for the replies 10, 12, 11, 13 and 9 ms of 5 requested it reports
\* avg = 11, min = 9, max = 13, jitter = 1.41 and loss = 0.
C19_RoundedStatistics ==
    (lt.st = "returned" /\ Len(lt.res.times) > 0) =>
        LET t == lt.res.times
            n == Len(t)
            J == lt.res.jitter
        IN  /\ 2 * Abs(lt.res.min * 10 - MinOf(t)) <= 10
            /\ 2 * Abs(lt.res.max * 10 - MaxOf(t)) <= 10
            /\ 2 * Abs(lt.res.avg * 10 * n - SumSeq(t)) <= 10 * n
            /\ (J = 0 \/ (2 * J - 1) * (2 * J - 1) * 25 * n * n <= SpreadOf(t))
            /\ SpreadOf(t) < (2 * J + 1) * (2 * J + 1) * 25 * n * n
            /\ (t = <<10000, 12000, 11000, 13000, 9000>> /\ lt.count = 5) =>
                  /\ lt.res.avg = 1100 /\ lt.res.min = 900
                  /\ lt.res.max = 1300 /\ lt.res.jitter = 141
                  /\ lt.res.loss = 0

\* C19 witness: the replies 10, 12, 11, 13 and 9 ms of 5 requested were
\* received and avg = 11, jitter = 1.41 and loss = 0 are reported.
C19_Witness ==
    /\ lt.st = "returned"
    /\ lt.count = 5
    /\ lt.res.times = <<10000, 12000, 11000, 13000, 9000>>
    /\ lt.res.avg = 1100
    /\ lt.res.jitter = 141
    /\ lt.res.loss = 0

\* C20: every external command NetworkTester starts is bounded by a hard
\* timeout of its own, so that runSpeedTest and testLatency return also when
\* a remote host never answers: no call stays pending for ever on a command
\* without a deadline.
C20_NoCallPendingForEver ==
    pc # "pending"

\* C21: testDownloadSpeedImproved reports a speed or a byte count other
\* than 0 only for transfers that ended with status 200 and a nonzero number
\* of bytes received: a transfer with an error status or with no bytes never
\* enters the result, on the trial path and on the fallback path alike.
C21_OnlySuccessfulTransfers ==
    (dl.st = "returned" /\ (dl.res.speed # 0 \/ dl.res.bytes # 0)) =>
        /\ Len(dl.sources) > 0
        /\ \A k \in DOMAIN dl.sources :
              dl.sources[k].http = "200" /\ dl.sources[k].size > 0

\* C22: the result of the best-of-N download does not depend on the order
\* of the trials: two kept trials obtained in one order or in the other give
\* the same returned result (speed, bytes and elapsed), also when the two
\* report the same speed.
C22_TrialOrderIrrelevant ==
    (call.fn = "bestOfTrials" /\ call.st = "returned") =>
        call.res[1] = call.res[2]

\* C23: findBestServer runs the reachability checks of its candidates
\* concurrently (fan-out, fan-in): while a check is in flight the checks of
\* all candidates have been started, a later one not waiting for an earlier
\* one to finish, and the result is taken when none is in flight any more.
C23_ChecksFanOut ==
    /\ ChecksInFlight # {} => ChecksStarted = 1..ProbedServers
    /\ fb.st = "returned" => ChecksInFlight = {}

\* C24: in runSpeedTest the sub-measurements run one after another in the
\* order server selection, download, upload, latency: each one is started
\* only when the results of all the previous ones have been taken and no
\* other one is running; in no call are a download test and an upload test
\* running at the same time.
C24_OneAfterAnother ==
    /\ op = "runSpeedTest" =>
          /\ fb.st # "idle" =>
                /\ rs.ran = <<>>
                /\ dl.st = "idle" /\ ul.st = "idle" /\ lt.st = "idle"
          /\ dl.st # "idle" =>
                /\ rs.ran = <<"server">>
                /\ fb.st = "idle" /\ ul.st = "idle" /\ lt.st = "idle"
          /\ ul.st # "idle" =>
                /\ rs.ran = <<"server", "download">>
                /\ fb.st = "idle" /\ dl.st = "idle" /\ lt.st = "idle"
          /\ lt.st # "idle" =>
                /\ rs.ran = <<"server", "download", "upload">>
                /\ fb.st = "idle" /\ dl.st = "idle" /\ ul.st = "idle"
    /\ ~(dl.st = "run" /\ ul.st = "run")

\* the latency test of a runSpeedTest call is running, after the three others
C24_Witness ==
    /\ op = "runSpeedTest"
    /\ lt.st = "run"
    /\ rs.ran = <<"server", "download", "upload">>
    /\ rs.uploadResult.speed > 0

\* C25: the payload file of a testUploadSpeedImproved call belongs to that
\* call alone: two calls that run together or that start in the same
\* millisecond never use the same path, and the payload of a call that is
\* still uploading has not been removed or replaced by another call.
C25_PayloadOwned ==
    /\ \A j, k \in 1..Invocations :
          (j # k /\ ups[j].st # "idle" /\ ups[k].st # "idle") =>
              ups[j].tempFile # ups[k].tempFile
    /\ \A k \in 1..Invocations :
          ups[k].st = "run" => ups[k].tempFile \in tmpFiles

\* C26: in the report of analyzeWiFiHealth the congestion level is the band
\* of the scoring table: 'low' exactly when the utilization scores 15 points
\* (at most 30), 'medium' exactly when it scores 10 (at most 60), 'high'
\* exactly when it scores 3.
C26_LevelIsScoreBand ==
    wh.st = "returned" =>
        LET level == wh.res.congestion.level
            band == CongestionBand(
                        [congestion |-> wh.res.congestion.channelUtilization])
        IN  /\ level = "low" <=> band = 1
            /\ level = "medium" <=> band = 2
            /\ level = "high" <=> band = 3

\* C27: after any sequence of analyzeSignal calls the stored history of
\* every BSSID holds at most 100 readings, in the order they were recorded;
\* every occurrence of the BSSID in the input of a call has appended one
\* reading, and a reading appended to a full history has evicted the oldest
\* one: the history is the last 100 readings recorded, or all of them.
C27_BoundedFifoHistory ==
    \A b \in Bssids :
        LET history == getSignalHistory(b)
        IN  /\ Len(history) <= 100
            /\ Len(history) = Min(recorded[b], 100)
            /\ \A i \in 1..Len(history) :
                  history[i].timestamp = recorded[b] - Len(history) + i

\* a history that has been full and has lost its two oldest readings
C27_Witness ==
    /\ recorded["aa:aa"] = 102
    /\ Len(getSignalHistory("aa:aa")) = 100
    /\ getSignalHistory("aa:aa")[1].timestamp = 3
    /\ Len(getSignalHistory("bb:bb")) = 1

\* C28: scanDevices returns only after every MAC lookup started by the
\* ping sweep has finished: once it has returned no lookup is running, and
\* every swept host that answered, is not the gateway and whose lookup found
\* a MAC address is in the returned list.
C28_LookupsDoneAtReturn ==
    scan.st = "returned" =>
        \A h \in 1..MaxHost :
            /\ scan.host[h] # "lookup"
            /\ scan.host[h] = "found" =>
                  \E i \in DOMAIN scan.res : scan.res[i] = h

\* C29: in the dashboard, also when updateData calls overlap, the stored
\* networks and devices are never replaced by the result of a scan that
\* started earlier than the scan already stored, and each anomaly detection
\* compares a scan against the result of the scan started immediately before
\* it (the scans between the two, if any, have all failed).
C29_ScansStoredInOrder ==
    \A i \in DOMAIN dash.log :
        /\ dash.log[i].against < dash.log[i].scan
        /\ \A j \in (dash.log[i].against + 1)..(dash.log[i].scan - 1) :
              j \in dash.failed

\* C30: every QoS rating is monotone: raising the latency, the jitter or the
\* packet loss, or lowering the throughput, the other metrics unchanged,
\* never gives a better classification, video, voice, gaming or browsing
\* rating, in the order excellent > good > fair > poor > unusable.
C30_WorseMetricNeverBetter ==
    (call.fn = "qualityOfServicePair" /\ call.st = "returned") =>
        LET first == call.res[1]
            second == call.res[2]
        IN  /\ RatingRank(second.classification) >=
                   RatingRank(first.classification)
            /\ \A app \in {"video", "voice", "gaming", "browsing"} :
                   RatingRank(second.applications[app]) >=
                       RatingRank(first.applications[app])

\* a latency raised from 20 ms to 40 ms turns 'excellent' into 'good', for
\* the classification and for gaming, and leaves the video rating
C30_Witness ==
    /\ call.fn = "qualityOfServicePair" /\ call.st = "returned"
    /\ call.args[1].avg = 20 * 100 /\ call.args[3].avg = 40 * 100
    /\ call.res[1].classification = "excellent"
    /\ call.res[2].classification = "good"
    /\ call.res[1].applications.gaming = "excellent"
    /\ call.res[2].applications.gaming = "good"
    /\ call.res[1].applications.video = call.res[2].applications.video

====
